---- MODULE Spec2Model ----
(***************************************************************************)
(* Reconciliation loops of cluster-api-provider-nvidia-bmm.                *)
(*                                                                         *)
(* The cluster controller (NvidiaBMMClusterReconciler) converges           *)
(* VPC -> IP block -> subnets -> NSG against the remote NVIDIA BMM API and *)
(* tears them down on deletion; the machine controller                     *)
(* (NvidiaBMMMachineReconciler) gates on the cluster, creates one instance *)
(* and polls it.  One action is one Reconcile invocation, from the fetch   *)
(* of the object to the deferred patch.  The remote API is a set of        *)
(* existing ids per resource kind; the answer of every remote call is      *)
(* truthful unless the call site is in the fault set F of the pass, in     *)
(* which case it is a transport error ("err") or a non-success status      *)
(* other than 404 ("status").                                              *)
(***************************************************************************)
EXTENDS Integers, Sequences, FiniteSets, TLC

VARIABLES
    nvidiaBmmCluster,   \* the persisted NvidiaBMMCluster object
    remote,             \* remote API: resource kind -> set of existing ids
    nextID,             \* next identifier the remote API hands out
    calls,              \* remote calls issued by the last reconcile pass
    pass,               \* outcome of the last reconcile pass
    mem,                \* the in-memory NvidiaBMMCluster when that pass returned
    disturbances,       \* failed remote calls, failed patches and drifts so far
    machines,           \* the persisted NvidiaBMMMachine objects
    capiMachines,       \* the owner Machine objects of Cluster API
    instances,          \* remote API: instance id -> what GetInstance reports
    memMachine,         \* the in-memory NvidiaBMMMachine and Machine of that pass
    firstReady          \* the first control-plane machine persisted ready with an address

vars == <<nvidiaBmmCluster, remote, nextID, calls, pass, mem, disturbances,
          machines, capiMachines, instances, memMachine, firstReady>>

(***************************************************************************)
(* Bounds of the model.                                                    *)
(***************************************************************************)
\* identifiers the remote API can hand out over a whole behaviour
MaxIDs == 7
\* failed remote calls (other than a truthful 404), failed patches and remote
\* drifts over a whole behaviour
MaxDisturbances == 2

(***************************************************************************)
(* Data                                                                    *)
(***************************************************************************)
\* Spec.Subnets, in declaration order
SubnetNames == <<"cp", "worker">>

SubnetNameSet == {SubnetNames[i] : i \in 1..Len(SubnetNames)}

\* the shapes of Spec.SiteRef: a direct id that is a UUID, a direct id that
\* is not, a name without id, nothing
SiteRefs == {"id", "badid", "name", "empty"}

Kinds == {"vpc", "ipblock", "subnet", "nsg"}

RemoteKinds == Kinds \cup {"instance"}

Machines == {"m1", "m2", "m3"}

\* Spec.Network.SubnetName of the machines
MachineSubnetName == "cp"

\* the port of the adopted control-plane endpoint
APIServerPort == 6443

NoEndpoint == [host |-> "", port |-> 0]

\* Spec.ProviderID when it is not set; a text is the sequence of its characters
NoProviderID == <<>>

\* Status.InstanceState as the remote reports it; NoInstanceState is a
\* response without status
NoInstanceState == ""

InstanceStates ==
    {"Pending", "Provisioning", "Ready", "Error", "Terminating", NoInstanceState}

\* the organization of the credentials secret and Spec.TenantID of the samples
SampleOrg == <<"o">>

SampleTenant == <<"0", "7">>

NoMemMachine == <<>>

VPCReadyCondition == "VPCReady"

SubnetsReadyCondition == "SubnetsReady"

NSGReadyCondition == "NSGReady"

ReadyCondition == "Ready"

ClusterConditions ==
    {VPCReadyCondition, SubnetsReadyCondition, NSGReadyCondition, ReadyCondition}

InstanceProvisionedCondition == "InstanceProvisioned"

NetworkConfiguredCondition == "NetworkConfigured"

MachineConditions ==
    {InstanceProvisionedCondition, NetworkConfiguredCondition, ReadyCondition}

\* transport error, non-success status other than 404
FaultModes == {"err", "status"}

NoSubnetIDs == [n \in {} |-> 0]

\* A NvidiaBMMCluster as created by the user: empty status, no finalizer,
\* no owner reference yet.  An id of 0 is the empty string.
\* Spec.Subnets[].CIDR, "a.b.c.d/n": the four octets and the prefix length
CIDR(a, b, c, d, n) == [ip |-> <<a, b, c, d>>, n |-> n]

\* the CIDR of a subnet of the samples
SampleCIDR == CIDR(10, 0, 1, 0, 24)

NvidiaBMMCluster(site, nsg, creds, paused) ==
    [exists    |-> TRUE,
     owner     |-> FALSE,
     paused    |-> paused,
     finalizer |-> FALSE,
     deleting  |-> FALSE,
     siteRef   |-> site,
     hasNSG    |-> nsg,
     credsOK   |-> creds,
     endpoint  |-> NoEndpoint,
     ready     |-> FALSE,
     vpcID     |-> 0,
     ipBlockID |-> 0,
     nsgID     |-> 0,
     subnetIDs |-> NoSubnetIDs,
     orgName   |-> SampleOrg,
     tenantID  |-> SampleTenant,
     cidrs     |-> [n \in SubnetNameSet |-> SampleCIDR],
     conds     |-> [t \in ClusterConditions |-> ""]]

\* Spec.InstanceType of a machine: the instance type id and the id of a
\* specific machine, "" when not given
InstanceTypeSpec(id, machineID) == [id |-> id, machineID |-> machineID]

\* A NvidiaBMMMachine as created from its template
\* Spec.Network: the primary subnet and the additional interfaces
NetworkInterface(subnetName, isPhysical) ==
    [subnetName |-> subnetName, isPhysical |-> isPhysical]

NetworkSpec(subnetName, additionalInterfaces) ==
    [subnetName |-> subnetName, additionalInterfaces |-> additionalInterfaces]

NvidiaBMMMachine ==
    [exists     |-> TRUE,
     owner      |-> FALSE,
     finalizer  |-> FALSE,
     deleting   |-> FALSE,
     instanceType |-> InstanceTypeSpec("type-1", ""),
     network    |-> NetworkSpec(MachineSubnetName, <<>>),
     providerID |-> NoProviderID,
     instanceID |-> 0,
     machineID  |-> 0,
     state      |-> "",
     addresses  |-> <<>>,
     ready      |-> FALSE,
     conds      |-> [t \in MachineConditions |-> ""]]

\* The owner Machine: bootstrap data reference, control-plane label
\* ("absent" when the label is not there), and what the scope writes to it
Machine(label) ==
    [bootstrap  |-> FALSE,
     cpLabel    |-> label,
     providerID |-> NoProviderID,
     addresses  |-> <<>>]

NoPass ==
    [ctrl |-> "none", who |-> "", branch |-> "none", err |-> FALSE,
     requeue |-> "none", patched |-> FALSE]

(***************************************************************************)
(* parseCIDR: net.ParseCIDR builds the mask of n leading ones, masks the   *)
(* address with it byte by byte, and Mask.Size counts the ones back        *)
(***************************************************************************)
RECURSIVE BitAnd(_, _, _)
BitAnd(x, y, bits) ==
    IF bits = 0 THEN 0
    ELSE (x % 2) * (y % 2) + 2 * BitAnd(x \div 2, y \div 2, bits - 1)

\* net.CIDRMask(ones, 32)
CIDRMask(ones) ==
    [i \in 1..4 |->
       LET k == IF ones - 8 * (i - 1) >= 8 THEN 8
                ELSE IF ones - 8 * (i - 1) <= 0 THEN 0
                ELSE ones - 8 * (i - 1)
       IN 256 - 2 ^ (8 - k)]

\* IP.Mask
MaskIP(ip, mask) == [i \in 1..4 |-> BitAnd(ip[i], mask[i], 8)]

RECURSIVE LeadingOnes(_)
LeadingOnes(byte) ==
    IF byte >= 128 THEN 1 + LeadingOnes((byte * 2) % 256) ELSE 0

\* IPMask.Size
RECURSIVE MaskSize(_, _)
MaskSize(mask, i) ==
    IF i > 4 THEN 0
    ELSE IF mask[i] = 255 THEN 8 + MaskSize(mask, i + 1)
    ELSE LeadingOnes(mask[i])

\* a network address that keeps the host bits
parseCIDR_KeepsHostBits(cidr) ==
    IF cidr.n \notin 0..32
    THEN [network |-> <<>>, prefixLength |-> 0, err |-> TRUE]
    ELSE [network |-> cidr.ip, prefixLength |-> MaskSize(CIDRMask(cidr.n), 1),
          err |-> FALSE]

parseCIDR(cidr) ==
    IF cidr.n \notin 0..32
    THEN [network |-> <<>>, prefixLength |-> 0, err |-> TRUE]
    ELSE LET mask == CIDRMask(cidr.n)
         IN [network |-> MaskIP(cidr.ip, mask), prefixLength |-> MaskSize(mask, 1),
             err |-> FALSE]

\* reconcileSubnets: the body of the create-subnet request
SubnetRequest(o, name, ipBlockID) ==
    [name |-> name, vpcId |-> o.vpcID, ipv4BlockId |-> ipBlockID,
     prefixLength |-> parseCIDR(o.cidrs[name]).prefixLength]

(***************************************************************************)
(* The remote API as the controllers see it.  A pass threads a context c   *)
(* through its steps: the in-memory object c.o, the remote state c.r, the  *)
(* id counter, the call log, the error flag of the step that just ran and  *)
(* the response of the last call (c.res, c.id).                            *)
(***************************************************************************)
Site(op, kind, key) == <<op, kind, key>>

Call(c, op, kind, key, id, res, reqIpb) ==
    [op |-> op, kind |-> kind, key |-> key, id |-> id, res |-> res,
     reqIpb    |-> reqIpb,
     req       |-> IF op = "create" /\ kind = "subnet"
                   THEN SubnetRequest(c.o, key, reqIpb) ELSE <<>>,
     vpcReady  |-> c.o.conds[VPCReadyCondition],
     statusVpc |-> c.o.vpcID,
     statusIpb |-> c.o.ipBlockID]

Respond(F, mode, site, present) ==
    IF site \in F THEN mode ELSE IF present THEN "ok" ELSE "notfound"

\* Get<Kind>WithResponse
RemoteGet(c, kind, key, id, F, mode) ==
    LET res == Respond(F, mode, Site("get", kind, key), id \in c.r[kind])
    IN [c EXCEPT !.calls = Append(@, Call(c, "get", kind, key, id, res, 0)),
                 !.res = res, !.id = id]

\* Create<Kind>WithResponse: a 201 carries a fresh id
RemoteCreate(c, kind, key, reqIpb, F, mode) ==
    LET res == Respond(F, mode, Site("create", kind, key), TRUE)
        id  == IF res = "ok" THEN c.next ELSE 0
    IN [c EXCEPT !.calls = Append(@, Call(c, "create", kind, key, id, res, reqIpb)),
                 !.res = res, !.id = id,
                 !.next = IF res = "ok" THEN @ + 1 ELSE @,
                 !.r[kind] = IF res = "ok" THEN @ \cup {id} ELSE @]

\* Delete<Kind>WithResponse: the answer for an id that is already absent is
\* the remote's choice, 200/204 (tolerant) or 404
RemoteDelete(c, kind, key, id, F, mode, tolerant) ==
    LET res == Respond(F, mode, Site("delete", kind, key),
                       id \in c.r[kind] \/ tolerant)
    IN [c EXCEPT !.calls = Append(@, Call(c, "delete", kind, key, id, res, 0)),
                 !.res = res, !.id = id,
                 !.r[kind] = IF res = "ok" THEN @ \ {id} ELSE @]

Fail(c) == [c EXCEPT !.err = TRUE]

\* a condition set false that takes the ready flag down with it
SetCondition_ResetsReady(c, t, v) ==
    [c EXCEPT !.o.conds[t] = v, !.o.ready = IF v = "False" THEN FALSE ELSE @]

SetCondition(c, t, v) == [c EXCEPT !.o.conds[t] = v]

\* uuid.Parse of a site id
ParseSiteUUID(siteID) == siteID = "id"

(***************************************************************************)
(* ClusterScope                                                            *)
(***************************************************************************)
\* ClusterScope.SiteID: the direct id wins, a name-only reference is an error
SiteID(o) ==
    IF o.siteRef \in {"id", "badid"}
    THEN [val |-> o.siteRef, err |-> FALSE]
    ELSE [val |-> "", err |-> TRUE]

SetSubnetID(ids, name, id) ==
    [n \in DOMAIN ids \cup {name} |-> IF n = name THEN id ELSE ids[n]]

DeleteSubnetID(ids, name) == [n \in DOMAIN ids \ {name} |-> ids[n]]

(***************************************************************************)
(* Cluster controller: converge                                            *)
(***************************************************************************)
\* reconcileVPC: the cached id is kept only on 200 with a body
VpcFound(res) == res = "ok"

\* a VPC step that forgets the cached subnets when it replaces the VPC
reconcileVPC_RebindsSubnets(c, siteID, F, mode) ==
    LET g  == IF c.o.vpcID # 0
              THEN RemoteGet(c, "vpc", "", c.o.vpcID, F, mode) ELSE c
    IN IF c.o.vpcID # 0 /\ VpcFound(g.res) THEN g
       ELSE LET g1 == [g EXCEPT !.o.vpcID = 0, !.o.subnetIDs = NoSubnetIDs]
            IN IF ~ParseSiteUUID(siteID) THEN Fail(g1)
               ELSE LET k == RemoteCreate(g1, "vpc", "", 0, F, mode)
                    IN IF k.res # "ok" THEN Fail(k)
                       ELSE [k EXCEPT !.o.vpcID = k.id]

reconcileVPC(c, siteID, F, mode) ==
    LET g  == IF c.o.vpcID # 0
              THEN RemoteGet(c, "vpc", "", c.o.vpcID, F, mode) ELSE c
    IN IF c.o.vpcID # 0 /\ VpcFound(g.res) THEN g
       ELSE LET g1 == [g EXCEPT !.o.vpcID = 0]
            IN IF ~ParseSiteUUID(siteID) THEN Fail(g1)
               ELSE LET k == RemoteCreate(g1, "vpc", "", 0, F, mode)
                    IN IF k.res # "ok" THEN Fail(k)
                       ELSE [k EXCEPT !.o.vpcID = k.id]

\* ensureIPBlock: leaves the id of the block to allocate from in c.id
IpblockFound(res) == res = "ok"

ensureIPBlock(c, siteID, F, mode) ==
    LET g == IF c.o.ipBlockID # 0
             THEN RemoteGet(c, "ipblock", "", c.o.ipBlockID, F, mode) ELSE c
    IN IF c.o.ipBlockID # 0 /\ IpblockFound(g.res) THEN g
       ELSE IF ~ParseSiteUUID(siteID) THEN Fail(g)
       ELSE LET k == RemoteCreate(g, "ipblock", "", 0, F, mode)
            IN IF k.res # "ok" THEN Fail(k)
               ELSE [k EXCEPT !.o.ipBlockID = k.id]

\* the body of the loop of reconcileSubnets for one declared subnet
SubnetFound_AnyStatus(res) == res # "err"

SubnetFound(res) == res = "ok"

reconcileSubnet(c, name, ipBlockID, F, mode) ==
    LET cached == name \in DOMAIN c.o.subnetIDs
        g  == IF cached
              THEN RemoteGet(c, "subnet", name, c.o.subnetIDs[name], F, mode)
              ELSE c
    IN IF cached /\ SubnetFound(g.res) THEN g
       ELSE LET g1 == [g EXCEPT !.o.subnetIDs = DeleteSubnetID(@, name)]
                k  == RemoteCreate(g1, "subnet", name, ipBlockID, F, mode)
            IN IF parseCIDR(c.o.cidrs[name]).err THEN Fail(g1)
               ELSE IF k.res # "ok" THEN Fail(k)
               ELSE [k EXCEPT !.o.subnetIDs = SetSubnetID(@, name, k.id)]

RECURSIVE subnetLoop(_, _, _, _, _)
subnetLoop(c, i, ipBlockID, F, mode) ==
    IF i > Len(SubnetNames) THEN c
    ELSE LET s == reconcileSubnet(c, SubnetNames[i], ipBlockID, F, mode)
         IN IF s.err THEN s ELSE subnetLoop(s, i + 1, ipBlockID, F, mode)

reconcileSubnets_NoIPBlock(c, siteID, F, mode) ==
    IF c.o.vpcID = 0 THEN Fail(c)
    ELSE subnetLoop(c, 1, c.o.ipBlockID, F, mode)

reconcileSubnets(c, siteID, F, mode) ==
    IF c.o.vpcID = 0 THEN Fail(c)
    ELSE LET b == ensureIPBlock(c, siteID, F, mode)
         IN IF b.err THEN b ELSE subnetLoop(b, 1, b.id, F, mode)

\* reconcileNSG
NsgFound(res) == res = "ok"

reconcileNSG(c, siteID, F, mode) ==
    IF ~ParseSiteUUID(siteID) THEN Fail(c)
    ELSE LET g == IF c.o.nsgID # 0
                  THEN RemoteGet(c, "nsg", "", c.o.nsgID, F, mode) ELSE c
         IN IF c.o.nsgID # 0 /\ NsgFound(g.res) THEN g
            ELSE LET g1 == [g EXCEPT !.o.nsgID = 0]
                     k  == RemoteCreate(g1, "nsg", "", 0, F, mode)
                 IN IF k.res # "ok" THEN Fail(k)
                    ELSE [k EXCEPT !.o.nsgID = k.id]

\* an NSG step that runs whether or not the spec has a security group
reconcileNSGStep_Unconditional(c, siteID, F, mode) ==
    LET n == reconcileNSG(c, siteID, F, mode)
    IN IF n.err THEN SetCondition(n, NSGReadyCondition, "False")
       ELSE SetCondition(n, NSGReadyCondition, "True")

\* the steps of reconcileNormal after the site id is resolved
reconcileNSGStep_ErrorDropped(c, siteID, F, mode) ==
    IF ~c.o.hasNSG THEN c
    ELSE LET n == reconcileNSG(c, siteID, F, mode)
         IN IF n.err THEN [SetCondition(n, NSGReadyCondition, "False") EXCEPT !.err = FALSE]
            ELSE SetCondition(n, NSGReadyCondition, "True")

reconcileNSGStep(c, siteID, F, mode) ==
    IF ~c.o.hasNSG THEN c
    ELSE LET n == reconcileNSG(c, siteID, F, mode)
         IN IF n.err THEN SetCondition(n, NSGReadyCondition, "False")
            ELSE SetCondition(n, NSGReadyCondition, "True")

\* the Ready condition without the ready flag
markReady_ConditionOnly(c) == SetCondition(c, ReadyCondition, "True")

markReady(c) ==
    SetCondition([c EXCEPT !.o.ready = TRUE], ReadyCondition, "True")

reconcileNormal(c, F, mode) ==
    IF ~c.o.finalizer
    THEN [c EXCEPT !.o.finalizer = TRUE, !.requeue = "now"]
    ELSE LET site == SiteID(c.o)
         IN IF site.err
            THEN Fail(SetCondition(c, VPCReadyCondition, "False"))
            ELSE LET v == reconcileVPC(c, site.val, F, mode)
                 IN IF v.err THEN SetCondition(v, VPCReadyCondition, "False")
                    ELSE LET s == reconcileSubnets(
                                      SetCondition(v, VPCReadyCondition, "True"),
                                      site.val, F, mode)
                         IN IF s.err
                            THEN SetCondition(s, SubnetsReadyCondition, "False")
                            ELSE LET n == reconcileNSGStep(
                                              SetCondition(s, SubnetsReadyCondition, "True"),
                                              site.val, F, mode)
                                 IN IF n.err THEN n ELSE markReady(n)

(***************************************************************************)
(* Cluster controller: delete                                              *)
(***************************************************************************)
\* reconcileDelete issues its delete calls in this order
DeleteOrder_VPCFirst == <<"vpc", "subnet", "nsg">>

DeleteOrder == <<"nsg", "subnet", "vpc">>

\* a delete call succeeded: no transport error and status 200 or 204
DeleteOK_NoTransportError(res) == res # "err"

DeleteOK(res) == res = "ok"

\* the cached (key, id) pairs of one kind, the subnets in the order the
\* iteration over the map happens to take
RECURSIVE subnetTargets(_, _, _)
subnetTargets(o, order, i) ==
    IF i > Len(order) THEN <<>>
    ELSE <<[key |-> order[i], id |-> o.subnetIDs[order[i]]]>>
         \o subnetTargets(o, order, i + 1)

deleteTargets(o, kind, order) ==
    CASE kind = "nsg" ->
           IF o.nsgID # 0 THEN <<[key |-> "", id |-> o.nsgID]>> ELSE <<>>
      [] kind = "subnet" -> subnetTargets(o, order, 1)
      [] kind = "vpc" ->
           IF o.vpcID # 0 THEN <<[key |-> "", id |-> o.vpcID]>> ELSE <<>>

RECURSIVE deleteAll(_, _, _, _, _, _, _)
deleteAll(c, kind, targets, i, F, mode, tolerant) ==
    IF i > Len(targets) THEN c
    ELSE LET d == RemoteDelete(c, kind, targets[i].key, targets[i].id,
                               F, mode, tolerant)
         IN IF ~DeleteOK(d.res) THEN Fail(d)
            ELSE deleteAll(d, kind, targets, i + 1, F, mode, tolerant)

RECURSIVE deleteKinds(_, _, _, _, _, _)
deleteKinds(c, k, order, F, mode, tolerant) ==
    IF k > Len(DeleteOrder) THEN c
    ELSE LET d == deleteAll(c, DeleteOrder[k],
                            deleteTargets(c.o, DeleteOrder[k], order), 1,
                            F, mode, tolerant)
         IN IF d.err THEN d ELSE deleteKinds(d, k + 1, order, F, mode, tolerant)

\* a delete that also releases the IP block
reconcileDelete_DeletesIPBlock(c, order, F, mode, tolerant) ==
    LET d == deleteKinds(c, 1, order, F, mode, tolerant)
        b == IF d.o.ipBlockID # 0
             THEN RemoteDelete(d, "ipblock", "", d.o.ipBlockID, F, mode, tolerant)
             ELSE d
    IN IF d.err THEN d ELSE [b EXCEPT !.o.finalizer = FALSE]

reconcileDelete(c, order, F, mode, tolerant) ==
    LET d == deleteKinds(c, 1, order, F, mode, tolerant)
    IN IF d.err THEN d ELSE [d EXCEPT !.o.finalizer = FALSE]

(***************************************************************************)
(* NvidiaBMMClusterReconciler.Reconcile                                    *)
(***************************************************************************)
Context(o) ==
    [o |-> o, r |-> remote, next |-> nextID, calls |-> <<>>,
     err |-> FALSE, requeue |-> "none", res |-> "", id |-> 0]

\* the orders in which a range over the subnet map can visit its keys
Orders(S) ==
    {q \in [1..Cardinality(S) -> S] : \A i, j \in 1..Cardinality(S) : q[i] = q[j] => i = j}

ConvergeSites ==
    {Site(op, kind, "") : op \in {"get", "create"}, kind \in {"vpc", "ipblock", "nsg"}}
    \cup {Site(op, "subnet", n) : op \in {"get", "create"}, n \in SubnetNameSet}

DeleteSites ==
    {Site("delete", kind, "") : kind \in {"vpc", "nsg"}}
    \cup {Site("delete", "subnet", n) : n \in SubnetNameSet}

FaultSets(S) ==
    {F \in SUBSET S : Cardinality(F) <= MaxDisturbances - disturbances}

\* how the failed calls of a pass fail; immaterial when none fails
Modes(F) == IF F = {} THEN {"err"} ELSE FaultModes

\* the call sites a pass went through
SitesCalled(log) == {Site(log[i].op, log[i].kind, log[i].key) : i \in 1..Len(log)}

\* what the API server keeps of a patched object: an object marked for
\* deletion goes away with its last finalizer
Persist(o) ==
    IF o.deleting /\ ~o.finalizer THEN [o EXCEPT !.exists = FALSE] ELSE o

\* the machine side of the state is left alone
MachinesUntouched ==
    /\ memMachine' = NoMemMachine
    /\ UNCHANGED <<machines, capiMachines, instances, firstReady>>

\* a pass that returns before the patch helper exists
ClusterSkip(branch) ==
    /\ pass' = [ctrl |-> "cluster", who |-> "", branch |-> branch, err |-> FALSE,
                requeue |-> "none", patched |-> FALSE]
    /\ calls' = <<>>
    /\ mem' = nvidiaBmmCluster
    /\ MachinesUntouched
    /\ UNCHANGED <<nvidiaBmmCluster, remote, nextID, disturbances>>

\* a pass that reaches the deferred patch with context c
ClusterFinish(branch, c, F, patchOK) ==
    /\ c.next <= MaxIDs + 1
    /\ F \subseteq SitesCalled(c.calls)
    /\ disturbances' = disturbances + Cardinality(F) + (IF patchOK THEN 0 ELSE 1)
    /\ disturbances' <= MaxDisturbances
    /\ nvidiaBmmCluster' = IF patchOK THEN Persist(c.o) ELSE nvidiaBmmCluster
    /\ remote' = c.r
    /\ nextID' = c.next
    /\ calls' = c.calls
    /\ mem' = c.o
    /\ MachinesUntouched
    /\ pass' = [ctrl |-> "cluster", who |-> "", branch |-> branch, err |-> c.err,
                requeue |-> c.requeue, patched |-> patchOK]

\* a deletion timestamp that is never seen
MarkedForDeletion_Never(o) == FALSE

\* !DeletionTimestamp.IsZero()
MarkedForDeletion(o) == o.deleting

\* util.GetOwnerCluster found the owner Cluster
OwnerCluster(o) == o.owner

ClusterReconcile(F, mode, tolerant, order, patchOK) ==
    LET o == nvidiaBmmCluster
    IN IF ~o.exists THEN ClusterSkip("notfound")
       ELSE IF ~OwnerCluster(o) THEN ClusterSkip("unowned")
       ELSE IF o.paused THEN ClusterSkip("paused")
       ELSE IF ~o.credsOK THEN ClusterFinish("scope", Fail(Context(o)), F, patchOK)
       ELSE IF MarkedForDeletion(o)
            THEN ClusterFinish("delete",
                               reconcileDelete(Context(o), order, F, mode, tolerant),
                               F, patchOK)
            ELSE ClusterFinish("normal", reconcileNormal(Context(o), F, mode), F, patchOK)

\* the inputs of one pass of the cluster controller: the remote's answers,
\* the order of the range over the subnet map, the fate of the deferred patch
ClusterPass ==
    \E patchOK \in BOOLEAN :
      IF nvidiaBmmCluster.deleting
      THEN \E tolerant \in BOOLEAN, F \in FaultSets(DeleteSites) :
             \E mode \in Modes(F), order \in Orders(DOMAIN nvidiaBmmCluster.subnetIDs) :
               ClusterReconcile(F, mode, tolerant, order, patchOK)
      ELSE \E F \in FaultSets(ConvergeSites) :
             \E mode \in Modes(F) :
               ClusterReconcile(F, mode, TRUE, <<>>, patchOK)

(***************************************************************************)
(* Environment of the cluster object                                       *)
(***************************************************************************)
Idle(o) ==
    /\ pass' = NoPass
    /\ calls' = <<>>
    /\ mem' = o

\* the Cluster controller of Cluster API sets the owner reference
SetClusterOwnerRef ==
    /\ nvidiaBmmCluster.exists /\ ~nvidiaBmmCluster.owner
    /\ nvidiaBmmCluster' = [nvidiaBmmCluster EXCEPT !.owner = TRUE]
    /\ Idle(nvidiaBmmCluster')
    /\ MachinesUntouched
    /\ UNCHANGED <<remote, nextID, disturbances>>

UnpauseCluster ==
    /\ nvidiaBmmCluster.exists /\ nvidiaBmmCluster.paused
    /\ nvidiaBmmCluster' = [nvidiaBmmCluster EXCEPT !.paused = FALSE]
    /\ Idle(nvidiaBmmCluster')
    /\ MachinesUntouched
    /\ UNCHANGED <<remote, nextID, disturbances>>

\* kubectl delete: the deletion timestamp is set
DeleteCluster ==
    /\ nvidiaBmmCluster.exists /\ ~nvidiaBmmCluster.deleting
    /\ nvidiaBmmCluster' = Persist([nvidiaBmmCluster EXCEPT !.deleting = TRUE])
    /\ Idle(nvidiaBmmCluster')
    /\ MachinesUntouched
    /\ UNCHANGED <<remote, nextID, disturbances>>

\* kubectl apply after the object went away: a new NvidiaBMMCluster of the
\* same name, with an empty status
RecreateCluster ==
    /\ ~nvidiaBmmCluster.exists
    /\ nvidiaBmmCluster' = NvidiaBMMCluster("id", FALSE, TRUE, FALSE)
    /\ Idle(nvidiaBmmCluster')
    /\ MachinesUntouched
    /\ UNCHANGED <<remote, nextID, disturbances>>

CachedIDs(o, kind) ==
    CASE kind = "vpc" -> {o.vpcID} \ {0}
      [] kind = "ipblock" -> {o.ipBlockID} \ {0}
      [] kind = "nsg" -> {o.nsgID} \ {0}
      [] kind = "subnet" -> {o.subnetIDs[n] : n \in DOMAIN o.subnetIDs}

\* drift: a resource the cluster has cached disappears from the remote API
RemoteDrift ==
    \E kind \in Kinds :
      \E id \in CachedIDs(nvidiaBmmCluster, kind) \cap remote[kind] :
        /\ disturbances < MaxDisturbances
        /\ disturbances' = disturbances + 1
        /\ remote' = [remote EXCEPT ![kind] = @ \ {id}]
        /\ Idle(nvidiaBmmCluster)
        /\ MachinesUntouched
        /\ UNCHANGED <<nvidiaBmmCluster, nextID>>

(***************************************************************************)
(* MachineScope                                                            *)
(***************************************************************************)
\* Machine.Labels[MachineControlPlaneLabel], "" when the label is absent
ControlPlaneLabel(ma) == IF ma.cpLabel = "absent" THEN "" ELSE ma.cpLabel

IsControlPlane(ma) == ControlPlaneLabel(ma) # ""

\* MachineScope.GetSubnetID: the machine's subnet name looked up in the
\* cluster status
GetSubnetID(o, mo) ==
    IF mo.network.subnetName \in DOMAIN o.subnetIDs
    THEN [val |-> o.subnetIDs[mo.network.subnetName], err |-> FALSE]
    ELSE [val |-> 0, err |-> TRUE]

\* the text of Spec.SiteRef.ID
SiteText(siteID) == IF siteID = "id" THEN <<"0", "5">> ELSE <<"b", "a", "d">>

\* uuid.UUID.String and uuid.Parse: an id is written as two hexadecimal digits
HexDigits == <<"0", "1", "2", "3", "4", "5", "6", "7", "8", "9",
               "a", "b", "c", "d", "e", "f">>

UUIDString(id) == <<HexDigits[(id \div 16) + 1], HexDigits[(id % 16) + 1]>>

HexValue(ch) == CHOOSE v \in 0..15 : HexDigits[v + 1] = ch

IsHex(ch) == \E v \in 0..15 : HexDigits[v + 1] = ch

ParseUUID(text) ==
    IF Len(text) = 2 /\ IsHex(text[1]) /\ IsHex(text[2])
    THEN [val |-> 16 * HexValue(text[1]) + HexValue(text[2]), err |-> FALSE]
    ELSE [val |-> 0, err |-> TRUE]

\* the identifier codec: nvidia-bmm://<org>/<tenant>/<site>/<instance-id>
ProviderIDPrefix ==
    <<"n", "v", "i", "d", "i", "a", "-", "b", "m", "m", ":", "/", "/">>

NewProviderID(org, tenant, site, instance) ==
    [org |-> org, tenant |-> tenant, site |-> site, instance |-> instance]

\* ProviderID.String
ProviderIDString(pid) ==
    ProviderIDPrefix \o pid.org \o <<"/">> \o pid.tenant \o <<"/">>
      \o pid.site \o <<"/">> \o UUIDString(pid.instance)

\* the segments of a text between the separators "/"
RECURSIVE SplitSegments(_, _)
SplitSegments(text, segment) ==
    IF text = <<>> THEN <<segment>>
    ELSE IF Head(text) = "/"
         THEN <<segment>> \o SplitSegments(Tail(text), <<>>)
         ELSE SplitSegments(Tail(text), Append(segment, Head(text)))

NoParse(err) ==
    [org |-> <<>>, tenant |-> <<>>, site |-> <<>>, instance |-> 0, err |-> err]

\* ParseProviderID: a structural error for a wrong scheme or segment count,
\* a value error for a last segment that is no UUID
ParseProviderID(text) ==
    IF \/ Len(text) < Len(ProviderIDPrefix)
       \/ SubSeq(text, 1, Len(ProviderIDPrefix)) # ProviderIDPrefix
    THEN NoParse("structural")
    ELSE LET parts == SplitSegments(
                        SubSeq(text, Len(ProviderIDPrefix) + 1, Len(text)), <<>>)
         IN IF Len(parts) # 4 THEN NoParse("structural")
            ELSE IF ParseUUID(parts[4]).err THEN NoParse("value")
            ELSE [org |-> parts[1], tenant |-> parts[2], site |-> parts[3],
                  instance |-> ParseUUID(parts[4]).val, err |-> ""]

\* MachineScope.ProviderID: nil ("nil") when unset or not parseable
ProviderID(mo) ==
    IF mo.providerID = NoProviderID THEN NoParse("nil")
    ELSE IF ParseProviderID(mo.providerID).err # "" THEN NoParse("nil")
    ELSE ParseProviderID(mo.providerID)

\* a provider id with tenant and site exchanged
SetProviderID_SwapsSegments(c, tenantName, siteName, instanceIDStr) ==
    LET providerIDStr == ProviderIDString(
                           NewProviderID(c.o.orgName, siteName, tenantName,
                                         ParseUUID(instanceIDStr).val))
    IN [c EXCEPT !.mo.providerID = providerIDStr, !.ma.providerID = providerIDStr]

\* MachineScope.SetProviderID writes the NvidiaBMMMachine and the Machine
SetProviderID(c, tenantName, siteName, instanceIDStr) ==
    IF ParseUUID(instanceIDStr).err THEN Fail(c)
    ELSE LET providerIDStr == ProviderIDString(
                                NewProviderID(c.o.orgName, tenantName, siteName,
                                              ParseUUID(instanceIDStr).val))
         IN [c EXCEPT !.mo.providerID = providerIDStr,
                      !.ma.providerID = providerIDStr]

\* MachineScope.SetAddresses writes the NvidiaBMMMachine and the Machine
SetAddresses(c, addresses) ==
    [c EXCEPT !.mo.addresses = addresses, !.ma.addresses = addresses]

SetMachineCondition(c, t, v) == [c EXCEPT !.mo.conds[t] = v]

\* the interface addresses the remote API assigns to the instance of m
InterfaceAddresses(m) == <<m \o ".if0", m \o ".if1">>

(***************************************************************************)
(* Machine controller                                                      *)
(***************************************************************************)
\* the gates of Reconcile
ClusterReady_Ungated(o) == TRUE

ClusterReady(o) == o.ready

\* a bootstrap gate that lets every machine through
BootstrapReady_Ungated(ma) == TRUE

BootstrapReady(ma) == ma.bootstrap

\* createInstance: what the create request carries of Spec.InstanceType
InstanceRequest(mo) ==
    [instanceTypeId |-> mo.instanceType.id,
     machineId      |-> mo.instanceType.machineID]

\* restclient.InterfaceCreateRequest
InterfaceCreateRequest(subnetId, isPhysical) ==
    [subnetId |-> subnetId, isPhysical |-> isPhysical]

\* an additional interface that is never marked physical
additionalInterface_NeverPhysical(o, additionalIf) ==
    IF additionalIf.subnetName \notin DOMAIN o.subnetIDs
    THEN [val |-> <<>>, err |-> TRUE]
    ELSE [val |-> <<InterfaceCreateRequest(o.subnetIDs[additionalIf.subnetName],
                                           FALSE)>>,
          err |-> FALSE]

\* createInstance: the body of the loop over Spec.Network.AdditionalInterfaces
additionalInterface(o, additionalIf) ==
    IF additionalIf.subnetName \notin DOMAIN o.subnetIDs
    THEN [val |-> <<>>, err |-> TRUE]
    ELSE [val |-> <<InterfaceCreateRequest(o.subnetIDs[additionalIf.subnetName],
                                           additionalIf.isPhysical)>>,
          err |-> FALSE]

RECURSIVE interfaceLoop(_, _, _, _)
interfaceLoop(o, additionalInterfaces, i, interfaces) ==
    IF i > Len(additionalInterfaces) THEN [val |-> interfaces, err |-> FALSE]
    ELSE LET a == additionalInterface(o, additionalInterfaces[i])
         IN IF a.err THEN [val |-> <<>>, err |-> TRUE]
            ELSE interfaceLoop(o, additionalInterfaces, i + 1, interfaces \o a.val)

\* createInstance: the primary interface, then the additional ones
Interfaces(o, mo) ==
    interfaceLoop(o, mo.network.additionalInterfaces, 1,
                  <<InterfaceCreateRequest(GetSubnetID(o, mo).val, FALSE)>>)

\* createInstance
createInstance(c, m, F, mode) ==
    IF ~c.ma.bootstrap THEN Fail(c)
    ELSE IF GetSubnetID(c.o, c.mo).err THEN Fail(c)
    ELSE IF c.o.vpcID = 0 THEN Fail(c)
    ELSE IF SiteID(c.o).err THEN Fail(c)
    ELSE IF ParseUUID(c.o.tenantID).err THEN Fail(c)
    ELSE IF Interfaces(c.o, c.mo).err THEN Fail(c)
    ELSE LET k == RemoteCreate(c, "instance", m, 0, F, mode)
         IN IF k.res # "ok" THEN Fail(k)
            ELSE SetProviderID(
                   [k EXCEPT !.inst = [i \in DOMAIN @ \cup {k.id} |->
                                         IF i = k.id
                                         THEN [name |-> m, state |-> "Provisioning",
                                               addresses |-> <<>>,
                                               req |-> InstanceRequest(c.mo),
                                               interfaces |->
                                                 Interfaces(c.o, c.mo).val]
                                         ELSE @[i]],
                             !.mo.instanceID = k.id,
                             !.mo.machineID = k.id,
                             !.mo.state = "Provisioning"],
                   c.o.tenantID, SiteText(SiteID(c.o).val), UUIDString(k.id))

\* reconcileInstance: the adoption of the control-plane endpoint
adoptEndpoint(c, addresses) ==
    IF IsControlPlane(c.ma) /\ c.o.endpoint.host = "" /\ Len(addresses) > 0
    THEN [c EXCEPT !.o.endpoint = [host |-> addresses[1], port |-> APIServerPort]]
    ELSE c

\* a lookup that takes only 201 Created for found
InstanceFound_WantsCreated(res) == res = "created"

InstanceFound(res) == res = "ok"

\* a state setter that keeps the ready flag in step with the state
SetInstanceState_ResetsReady(c, state) ==
    [c EXCEPT !.mo.state = state, !.mo.ready = state = "Ready",
              !.mo.conds[ReadyCondition] = IF state = "Ready" THEN @ ELSE "False"]

\* MachineScope.SetInstanceState
SetInstanceState(c, state) == [c EXCEPT !.mo.state = state]

\* a poll that takes every instance that has a state for ready
InstanceIsReady_AnyState(instance) == instance.state # NoInstanceState

\* instance.Status != nil && *instance.Status == "Ready"
InstanceIsReady(instance) == instance.state = "Ready"

\* a poll that replaces an instance it cannot find, as the cluster
\* controller replaces its resources
reconcileInstance_Recreates(c, m, F, mode) ==
    LET g == RemoteGet(c, "instance", m, c.mo.instanceID, F, mode)
    IN IF InstanceFound(g.res) THEN [g EXCEPT !.requeue = "30s"]
       ELSE createInstance(g, m, F, mode)

reconcileInstance(c, m, F, mode) ==
    LET g == RemoteGet(c, "instance", m, c.mo.instanceID, F, mode)
    IN IF ~InstanceFound(g.res) THEN Fail(g)
       ELSE LET instance == g.inst[c.mo.instanceID]
                s == [(IF instance.state # NoInstanceState
                       THEN SetInstanceState(g, instance.state) ELSE g)
                        EXCEPT !.mo.machineID = c.mo.instanceID]
                a == IF Len(instance.addresses) > 0
                     THEN SetMachineCondition(SetAddresses(s, instance.addresses),
                                              NetworkConfiguredCondition, "True")
                     ELSE s
            IN IF InstanceIsReady(instance)
               THEN adoptEndpoint(
                      SetMachineCondition([a EXCEPT !.mo.ready = TRUE],
                                          ReadyCondition, "True"),
                      instance.addresses)
               ELSE [a EXCEPT !.requeue = "30s"]

\* a finalizer attached on the way, without ending the pass
machineAddFinalizer_GoesOn(c, m, F, mode) ==
    [createInstance([c EXCEPT !.mo.finalizer = TRUE], m, F, mode)
       EXCEPT !.requeue = "now"]

\* controllerutil.AddFinalizer and return Result{Requeue: true}
machineAddFinalizer(c, m, F, mode) ==
    [c EXCEPT !.mo.finalizer = TRUE, !.requeue = "now"]

machineReconcileNormal(c, m, F, mode) ==
    IF ~c.mo.finalizer
    THEN machineAddFinalizer(c, m, F, mode)
    ELSE IF c.mo.instanceID # 0 THEN reconcileInstance(c, m, F, mode)
    ELSE LET k == createInstance(c, m, F, mode)
         IN IF k.err
            THEN SetMachineCondition(k, InstanceProvisionedCondition, "False")
            ELSE [SetMachineCondition(k, InstanceProvisionedCondition, "True")
                    EXCEPT !.requeue = "10s"]

\* a delete that also drops the machine's subnet from the cluster's cache
machineReconcileDelete_DropsSubnet(c, m, F, mode, tolerant) ==
    [c EXCEPT !.mo.finalizer = FALSE,
              !.o.subnetIDs = DeleteSubnetID(@, MachineSubnetName)]

machineReconcileDelete(c, m, F, mode, tolerant) ==
    IF c.mo.instanceID # 0
    THEN LET d == RemoteDelete(c, "instance", m, c.mo.instanceID, F, mode, tolerant)
         IN IF ~DeleteOK(d.res) THEN Fail(d)
            ELSE [d EXCEPT !.mo.finalizer = FALSE]
    ELSE [c EXCEPT !.mo.finalizer = FALSE]

(***************************************************************************)
(* NvidiaBMMMachineReconciler.Reconcile                                    *)
(***************************************************************************)
MachineContext(m) ==
    [o |-> nvidiaBmmCluster, mo |-> machines[m], ma |-> capiMachines[m],
     r |-> remote, inst |-> instances, next |-> nextID, calls |-> <<>>,
     err |-> FALSE, requeue |-> "none", res |-> "", id |-> 0]

MachineSites(m) == {Site(op, "instance", m) : op \in {"create", "get", "delete"}}

\* a pass that returns before the patch helper exists
MachineSkip(m, branch, err, requeue) ==
    /\ pass' = [ctrl |-> "machine", who |-> m, branch |-> branch, err |-> err,
                requeue |-> requeue, patched |-> FALSE]
    /\ calls' = <<>>
    /\ mem' = nvidiaBmmCluster
    /\ memMachine' = [o |-> machines[m], machine |-> capiMachines[m]]
    /\ UNCHANGED <<nvidiaBmmCluster, remote, nextID, disturbances, machines,
                   capiMachines, instances, firstReady>>

\* a pass that reaches the deferred patch with context c: the patch helper
\* holds the NvidiaBMMMachine only
MachineFinish(m, branch, c, F, patchOK) ==
    /\ c.next <= MaxIDs + 1
    /\ F \subseteq SitesCalled(c.calls)
    /\ disturbances' = disturbances + Cardinality(F) + (IF patchOK THEN 0 ELSE 1)
    /\ disturbances' <= MaxDisturbances
    /\ machines' = [machines EXCEPT ![m] = IF patchOK THEN Persist(c.mo) ELSE @]
    /\ remote' = c.r
    /\ instances' = c.inst
    /\ nextID' = c.next
    /\ calls' = c.calls
    /\ mem' = c.o
    /\ memMachine' = [o |-> c.mo, machine |-> c.ma]
    /\ pass' = [ctrl |-> "machine", who |-> m, branch |-> branch, err |-> c.err,
                requeue |-> c.requeue, patched |-> patchOK]
    /\ firstReady' =
         IF /\ firstReady = "" /\ IsControlPlane(capiMachines[m])
            /\ machines'[m].ready /\ Len(machines'[m].addresses) > 0
         THEN m ELSE firstReady
    /\ UNCHANGED <<nvidiaBmmCluster, capiMachines>>

\* an owner Machine taken as found
OwnerMachine_Assumed(mo) == TRUE

\* util.GetOwnerMachine found the owner Machine
OwnerMachine(mo) == mo.owner

MachineReconcile(m, F, mode, tolerant, patchOK) ==
    IF ~machines[m].exists THEN MachineSkip(m, "notfound", FALSE, "none")
    ELSE IF ~OwnerMachine(machines[m]) THEN MachineSkip(m, "unowned", FALSE, "none")
    ELSE IF ~nvidiaBmmCluster.exists THEN MachineSkip(m, "nocluster", TRUE, "none")
    ELSE IF nvidiaBmmCluster.paused THEN MachineSkip(m, "paused", FALSE, "none")
    ELSE IF ~ClusterReady(nvidiaBmmCluster)
         THEN MachineSkip(m, "clusternotready", FALSE, "10s")
    ELSE IF ~BootstrapReady(capiMachines[m])
         THEN MachineSkip(m, "nobootstrap", FALSE, "10s")
    ELSE IF ~nvidiaBmmCluster.credsOK
         THEN MachineFinish(m, "scope", Fail(MachineContext(m)), F, patchOK)
    ELSE IF MarkedForDeletion(machines[m])
         THEN MachineFinish(m, "delete",
                            machineReconcileDelete(MachineContext(m), m, F, mode, tolerant),
                            F, patchOK)
         ELSE MachineFinish(m, "normal",
                            machineReconcileNormal(MachineContext(m), m, F, mode),
                            F, patchOK)

\* the machines a reconcile request can name: those that were created
Created == {m \in Machines : machines[m].exists \/ machines[m].deleting}

\* the inputs of one pass of the machine controller
MachinePass ==
    \E m \in Created, patchOK \in BOOLEAN :
      \E F \in FaultSets(MachineSites(m)) :
        \E mode \in Modes(F),
           tolerant \in (IF machines[m].deleting THEN BOOLEAN ELSE {TRUE}) :
          MachineReconcile(m, F, mode, tolerant, patchOK)

(***************************************************************************)
(* Environment of the machines                                             *)
(***************************************************************************)
MachineIdle ==
    /\ pass' = NoPass
    /\ calls' = <<>>
    /\ mem' = nvidiaBmmCluster
    /\ memMachine' = NoMemMachine
    /\ UNCHANGED <<nvidiaBmmCluster, nextID, disturbances, firstReady>>

\* the Machine controller of Cluster API sets the owner reference
SetMachineOwnerRef ==
    \E m \in Machines :
      /\ machines[m].exists /\ ~machines[m].owner
      /\ machines' = [machines EXCEPT ![m].owner = TRUE]
      /\ MachineIdle
      /\ UNCHANGED <<capiMachines, remote, instances>>

\* the bootstrap provider publishes the bootstrap data secret
SetBootstrapData ==
    \E m \in Machines :
      /\ ~capiMachines[m].bootstrap
      /\ capiMachines' = [capiMachines EXCEPT ![m].bootstrap = TRUE]
      /\ MachineIdle
      /\ UNCHANGED <<machines, remote, instances>>

\* kubectl delete: the deletion timestamp is set
DeleteMachine ==
    \E m \in Machines :
      /\ machines[m].exists /\ ~machines[m].deleting
      /\ machines' = [machines EXCEPT ![m] = Persist([@ EXCEPT !.deleting = TRUE])]
      /\ MachineIdle
      /\ UNCHANGED <<capiMachines, remote, instances>>

\* the remote side moves an instance to another state, or reports none
InstanceChangesState ==
    \E id \in remote["instance"], state \in InstanceStates :
      /\ instances[id].state # state
      /\ instances' = [instances EXCEPT ![id].state = state]
      /\ MachineIdle
      /\ UNCHANGED <<machines, capiMachines, remote>>

\* the remote side loses an instance
InstanceVanishes ==
    \E id \in remote["instance"] :
      /\ disturbances < MaxDisturbances
      /\ disturbances' = disturbances + 1
      /\ remote' = [remote EXCEPT !["instance"] = @ \ {id}]
      /\ pass' = NoPass
      /\ calls' = <<>>
      /\ mem' = nvidiaBmmCluster
      /\ memMachine' = NoMemMachine
      /\ UNCHANGED <<nvidiaBmmCluster, nextID, firstReady, machines,
                     capiMachines, instances>>

\* the remote side brings an instance up with its interface addresses
InstanceBecomesReady ==
    \E id \in remote["instance"] :
      /\ instances[id].state # "Ready"
      /\ instances' = [instances EXCEPT ![id].state = "Ready",
                         ![id].addresses = InterfaceAddresses(instances[id].name)]
      /\ MachineIdle
      /\ UNCHANGED <<machines, capiMachines, remote>>

(***************************************************************************)
(* Specification of the cluster controller                                 *)
(***************************************************************************)
\* the three ways to fill Spec.InstanceType: a type, a specific machine, both
InstanceTypeOf(m) ==
    CASE m = "m1" -> InstanceTypeSpec("type-1", "")
      [] m = "m2" -> InstanceTypeSpec("", "machine-2")
      [] m = "m3" -> InstanceTypeSpec("type-1", "machine-3")

\* nothing has run yet: no remote resource, the machines in E created as
\* control-plane machines waiting for owner reference and bootstrap data,
\* d disturbances already spent
QuietRemote(d) ==
    /\ remote = [k \in RemoteKinds |-> {}]
    /\ nextID = 1
    /\ calls = <<>>
    /\ pass = NoPass
    /\ mem = nvidiaBmmCluster
    /\ disturbances = d
    /\ instances = <<>>
    /\ memMachine = NoMemMachine
    /\ firstReady = ""

NewMachines(E) ==
    [m \in Machines |-> [NvidiaBMMMachine EXCEPT !.exists = m \in E,
                                                 !.instanceType = InstanceTypeOf(m)]]

Quiet(E, d) ==
    /\ QuietRemote(d)
    /\ machines = NewMachines(E)
    /\ capiMachines = [m \in Machines |-> Machine("true")]

Init ==
    /\ nvidiaBmmCluster \in
         {NvidiaBMMCluster(s, n, cr, p) :
            s \in SiteRefs, n \in BOOLEAN, cr \in BOOLEAN, p \in BOOLEAN}
    /\ Quiet(Machines, 0)

Next ==
    \/ ClusterPass
    \/ SetClusterOwnerRef
    \/ UnpauseCluster
    \/ DeleteCluster
    \/ RemoteDrift

Spec == Init /\ [][Next]_vars

(***************************************************************************)
(* Specification of both controllers: one cluster that can converge, one   *)
(* machine, deletions, and one disturbance fewer than the cluster alone    *)
(***************************************************************************)
MInit ==
    /\ nvidiaBmmCluster = NvidiaBMMCluster("id", FALSE, TRUE, FALSE)
    /\ Quiet({"m1"}, 1)

MNext ==
    \/ ClusterPass
    \/ SetClusterOwnerRef
    \/ DeleteCluster
    \/ MachinePass
    \/ SetMachineOwnerRef
    \/ SetBootstrapData
    \/ DeleteMachine
    \/ InstanceBecomesReady

MSpec == MInit /\ [][MNext]_vars

(***************************************************************************)
(* Specification of the bring-up of a control plane of three machines,     *)
(* without failures and deletions                                          *)
(***************************************************************************)
EInit ==
    /\ nvidiaBmmCluster = NvidiaBMMCluster("id", FALSE, TRUE, FALSE)
    /\ Quiet(Machines, MaxDisturbances)

ENext ==
    \/ ClusterPass
    \/ SetClusterOwnerRef
    \/ MachinePass
    \/ SetMachineOwnerRef
    \/ SetBootstrapData
    \/ InstanceBecomesReady

ESpec == EInit /\ [][ENext]_vars

(***************************************************************************)
(* Specification of the subnet step over the CIDRs a cluster can declare:  *)
(* the control-plane subnet takes every CIDR of CIDRs, nothing fails       *)
(***************************************************************************)
\* addresses with and without host bits in every octet, every prefix
\* length, and one that is out of range
CIDRs ==
    {CIDR(a, b, c, d, n) :
       a \in {10, 255}, b \in {0, 129}, c \in {1, 255}, d \in {0, 5, 255},
       n \in 0..33}

CInit ==
    /\ nvidiaBmmCluster \in
         {[NvidiaBMMCluster("id", FALSE, TRUE, FALSE) EXCEPT !.cidrs["cp"] = x] :
            x \in CIDRs}
    /\ Quiet({}, MaxDisturbances)

CNext ==
    \/ ClusterPass
    \/ SetClusterOwnerRef

CSpec == CInit /\ [][CNext]_vars

(***************************************************************************)
(* Specification of the provisioning of one machine over the organizations *)
(* a credentials secret can name: any non-empty text, "/" included;        *)
(* nothing fails                                                           *)
(***************************************************************************)
NameChars == {"a", "/"}

Names == {<<x>> : x \in NameChars} \cup {<<x, y>> : x, y \in NameChars}

PInit ==
    /\ nvidiaBmmCluster \in
         {[NvidiaBMMCluster("id", FALSE, TRUE, FALSE) EXCEPT !.orgName = org] :
            org \in Names}
    /\ Quiet({"m1"}, MaxDisturbances)

PNext ==
    \/ ClusterPass
    \/ SetClusterOwnerRef
    \/ MachinePass
    \/ SetMachineOwnerRef
    \/ SetBootstrapData
    \/ InstanceBecomesReady

PSpec == PInit /\ [][PNext]_vars

(***************************************************************************)
(* Specification of the polling of one machine's instance, whose state the *)
(* remote changes at will; nothing fails                                   *)
(***************************************************************************)
IInit ==
    /\ nvidiaBmmCluster = NvidiaBMMCluster("id", FALSE, TRUE, FALSE)
    /\ Quiet({"m1"}, MaxDisturbances)

INext ==
    \/ ClusterPass
    \/ SetClusterOwnerRef
    \/ MachinePass
    \/ SetMachineOwnerRef
    \/ SetBootstrapData
    \/ InstanceChangesState
    \/ InstanceBecomesReady

ISpec == IInit /\ [][INext]_vars

(***************************************************************************)
(* Specification of the provisioning of one machine over the networks its  *)
(* spec can declare: a primary subnet and up to MaxInterfaces additional   *)
(* interfaces, on subnets the cluster declares or not; nothing fails       *)
(***************************************************************************)
MaxInterfaces == 2

UndeclaredSubnet == "storage"

NetworkInterfaces ==
    {NetworkInterface(n, p) : n \in {"worker", UndeclaredSubnet}, p \in BOOLEAN}

InterfaceLists ==
    UNION {[1..n -> NetworkInterfaces] : n \in 0..MaxInterfaces}

Networks ==
    {NetworkSpec(n, a) : n \in {MachineSubnetName, UndeclaredSubnet},
                         a \in InterfaceLists}

NInit ==
    /\ nvidiaBmmCluster = NvidiaBMMCluster("id", FALSE, TRUE, FALSE)
    /\ QuietRemote(MaxDisturbances)
    /\ machines \in {[NewMachines({"m1"}) EXCEPT !["m1"].network = n] :
                       n \in Networks}
    /\ capiMachines = [m \in Machines |-> Machine("true")]

NNext ==
    \/ ClusterPass
    \/ SetClusterOwnerRef
    \/ MachinePass
    \/ SetMachineOwnerRef
    \/ SetBootstrapData
    \/ InstanceBecomesReady

NSpec == NInit /\ [][NNext]_vars

(***************************************************************************)
(* Specification of the bring-up of one machine over the control-plane     *)
(* labels its owner Machine can carry: a value, the empty value that       *)
(* Cluster API sets, or no label; nothing fails                            *)
(***************************************************************************)
ControlPlaneLabels == {"true", "", "absent"}

RInit ==
    /\ nvidiaBmmCluster = NvidiaBMMCluster("id", FALSE, TRUE, FALSE)
    /\ QuietRemote(MaxDisturbances)
    /\ machines = NewMachines({"m1"})
    /\ capiMachines \in {[m \in Machines |-> Machine(label)] :
                           label \in ControlPlaneLabels}

RNext ==
    \/ ClusterPass
    \/ SetClusterOwnerRef
    \/ MachinePass
    \/ SetMachineOwnerRef
    \/ SetBootstrapData
    \/ InstanceBecomesReady

RSpec == RInit /\ [][RNext]_vars

(***************************************************************************)
(* Specification of both controllers with one machine whose instance the   *)
(* remote can lose: one disturbance, a failed call, a failed patch or a    *)
(* lost instance                                                           *)
(***************************************************************************)
VInit ==
    /\ nvidiaBmmCluster = NvidiaBMMCluster("id", FALSE, TRUE, FALSE)
    /\ Quiet({"m1"}, 1)

VNext ==
    \/ ClusterPass
    \/ SetClusterOwnerRef
    \/ MachinePass
    \/ SetMachineOwnerRef
    \/ SetBootstrapData
    \/ DeleteMachine
    \/ InstanceBecomesReady
    \/ InstanceVanishes

VSpec == VInit /\ [][VNext]_vars

(***************************************************************************)
(* Specification of both controllers with one machine, deletions, and a    *)
(* cluster object that is created again after it went away; nothing fails  *)
(***************************************************************************)
GInit ==
    /\ nvidiaBmmCluster = NvidiaBMMCluster("id", FALSE, TRUE, FALSE)
    /\ Quiet({"m1"}, MaxDisturbances)

GNext ==
    \/ ClusterPass
    \/ SetClusterOwnerRef
    \/ DeleteCluster
    \/ RecreateCluster
    \/ MachinePass
    \/ SetMachineOwnerRef
    \/ SetBootstrapData
    \/ DeleteMachine
    \/ InstanceBecomesReady

GSpec == GInit /\ [][GNext]_vars

(***************************************************************************)
(* The same specifications with the scheduling of controller-runtime: a    *)
(* pass is run for every requeue, returned error and watch event, so a     *)
(* pass that can change something is eventually run; the remote eventually *)
(* brings a created instance up.                                           *)
(***************************************************************************)
LiveSpec == Spec /\ WF_vars(ClusterPass)

LiveMSpec ==
    /\ MSpec
    /\ WF_vars(ClusterPass)
    /\ WF_vars(MachinePass)
    /\ WF_vars(InstanceBecomesReady)

(***************************************************************************)
(* Vocabulary of the properties                                            *)
(***************************************************************************)
ClusterNormalPass == pass.ctrl = "cluster" /\ pass.branch = "normal"

ClusterDeletePass == pass.ctrl = "cluster" /\ pass.branch = "delete"

CallsOf(log, op, kind) ==
    {i \in 1..Len(log) : log[i].op = op /\ log[i].kind = kind}

\* the id an object caches for a resource, 0 when there is none
Cached(o, kind, key) ==
    CASE kind = "vpc" -> o.vpcID
      [] kind = "ipblock" -> o.ipBlockID
      [] kind = "nsg" -> o.nsgID
      [] kind = "subnet" -> IF key \in DOMAIN o.subnetIDs THEN o.subnetIDs[key] ELSE 0

\* VPC, IP block, every declared subnet and the requested NSG are cached
\* and exist remotely
Converged(o, r) ==
    /\ o.exists /\ o.owner /\ ~o.paused /\ o.finalizer /\ ~o.deleting
    /\ o.vpcID \in r["vpc"]
    /\ o.ipBlockID \in r["ipblock"]
    /\ DOMAIN o.subnetIDs = SubnetNameSet
    /\ \A n \in SubnetNameSet : o.subnetIDs[n] \in r["subnet"]
    /\ o.hasNSG => o.nsgID \in r["nsg"]

CreateRank(kind) ==
    CASE kind = "vpc" -> 1 [] kind = "ipblock" -> 2 [] kind = "subnet" -> 3
      [] kind = "nsg" -> 4

(***************************************************************************)
(* C1  Gate enforcement                                                    *)
(***************************************************************************)
GatesUnmet(m) == ~nvidiaBmmCluster.ready \/ ~capiMachines[m].bootstrap

\* C1: for every machine, while the cluster's ready flag is false or the
\* owner Machine has no bootstrap data reference, the machine's InstanceID is
\* and stays empty, on the persisted object and in the memory of a pass, and
\* no machine reconcile pass for it issues a create-instance call.
C1_GateEnforcement ==
    [][\A m \in Machines :
         GatesUnmet(m) =>
           /\ machines[m].instanceID = 0
           /\ machines'[m].instanceID = 0
           /\ (pass'.ctrl = "machine" /\ pass'.who = m) =>
                /\ CallsOf(calls', "create", "instance") = {}
                /\ memMachine'.o.instanceID = 0]_vars

\* a pass for an owned machine with bootstrap data whose cluster has cached
\* subnets and is not ready
C1_Witness ==
    /\ pass.ctrl = "machine"
    /\ machines[pass.who].exists /\ machines[pass.who].owner
    /\ nvidiaBmmCluster.exists /\ ~nvidiaBmmCluster.ready
    /\ capiMachines[pass.who].bootstrap
    /\ DOMAIN nvidiaBmmCluster.subnetIDs # {}

AllDeletesOK(log) == \A i \in 1..Len(log) : log[i].op = "delete" /\ log[i].res = "ok"

\* C3: in a cluster delete pass and in a machine delete pass, a failed delete
\* call is the last call of the pass, the pass returns an error and the
\* finalizer stays in memory and on the persisted object; the finalizer of
\* the cluster or of a machine goes away only in a delete pass of that object
\* all of whose delete calls succeeded.
C3_FailedDeleteKeepsFinalizer ==
    [][/\ (pass'.branch = "delete" /\ ~AllDeletesOK(calls')) =>
            /\ pass'.err
            /\ \A i \in 1..Len(calls') : calls'[i].res # "ok" => i = Len(calls')
            /\ pass'.ctrl = "cluster" =>
                 /\ mem'.finalizer
                 /\ nvidiaBmmCluster'.exists /\ nvidiaBmmCluster'.finalizer
            /\ pass'.ctrl = "machine" =>
                 /\ memMachine'.o.finalizer
                 /\ machines'[pass'.who].exists /\ machines'[pass'.who].finalizer
       /\ (nvidiaBmmCluster.finalizer
           /\ (~nvidiaBmmCluster'.finalizer \/ (pass'.ctrl = "cluster" /\ ~mem'.finalizer)))
          => /\ pass'.ctrl = "cluster" /\ pass'.branch = "delete" /\ ~pass'.err
             /\ AllDeletesOK(calls')
       /\ \A m \in Machines :
            (machines[m].finalizer
             /\ (~machines'[m].finalizer
                 \/ (pass'.ctrl = "machine" /\ pass'.who = m /\ ~memMachine'.o.finalizer)))
            => /\ pass'.ctrl = "machine" /\ pass'.who = m
               /\ pass'.branch = "delete" /\ ~pass'.err
               /\ AllDeletesOK(calls')]_vars

\* a machine delete pass whose delete-instance call failed
C3_Witness ==
    /\ pass.ctrl = "machine" /\ pass.branch = "delete" /\ pass.patched
    /\ Len(calls) = 1 /\ calls[1].op = "delete" /\ calls[1].res \in FaultModes
    /\ machines[pass.who].finalizer /\ machines[pass.who].instanceID # 0

(***************************************************************************)
(* C4  Already-absent resources count as deleted                           *)
(***************************************************************************)
\* C4: a delete call whose resource is already gone remotely is observed as
\* success: a cluster delete pass never aborts on the 404 of a delete call.
C4_AbsentCountsAsDeleted ==
    (ClusterDeletePass /\ pass.err) => calls[Len(calls)].res # "notfound"

(***************************************************************************)
(* C5  Idempotence                                                         *)
(***************************************************************************)
\* C5: from a converged cluster (VPC, IP block, every declared subnet and the
\* requested NSG cached and existing remotely) a converge pass issues no
\* create call and leaves every cached id unchanged, in memory and on the
\* persisted object.
C5_Idempotence ==
    [][(/\ Converged(nvidiaBmmCluster, remote)
        /\ pass'.ctrl = "cluster" /\ pass'.branch = "normal")
       => /\ \A i \in 1..Len(calls') : calls'[i].op # "create"
          /\ \A kind \in Kinds, key \in SubnetNameSet \cup {""} :
               /\ Cached(mem', kind, key) = Cached(nvidiaBmmCluster, kind, key)
               /\ Cached(nvidiaBmmCluster', kind, key) = Cached(nvidiaBmmCluster, kind, key)]_vars

(***************************************************************************)
(* C6  Recreation on drift                                                 *)
(***************************************************************************)
\* C6: in a converge pass, a lookup of a cached id that answers not-found is
\* followed at once by a create call for the same resource, and when that
\* create succeeds the cached id is the id it returned (in memory, and on the
\* persisted object when the patch of the pass is applied).
C6_RecreationOnDrift ==
    ClusterNormalPass =>
      \A i \in 1..Len(calls) :
        (calls[i].op = "get" /\ calls[i].res = "notfound") =>
          /\ i + 1 <= Len(calls)
          /\ calls[i + 1].op = "create"
          /\ calls[i + 1].kind = calls[i].kind /\ calls[i + 1].key = calls[i].key
          /\ calls[i + 1].res = "ok" =>
               /\ calls[i + 1].id # calls[i].id
               /\ Cached(mem, calls[i].kind, calls[i].key) = calls[i + 1].id
               /\ pass.patched =>
                    Cached(nvidiaBmmCluster, calls[i].kind, calls[i].key) = calls[i + 1].id

\* an NSG found missing is recreated and the new id persisted
C6_Witness ==
    /\ ClusterNormalPass /\ pass.patched
    /\ \E i \in 1..Len(calls) :
         /\ calls[i].op = "get" /\ calls[i].res = "notfound" /\ calls[i].kind = "nsg"
         /\ calls[i + 1].op = "create" /\ calls[i + 1].res = "ok"

(***************************************************************************)
(* C7  Remote failure is not stale cache                                   *)
(***************************************************************************)
\* C7: when the lookup of a cached VPC, subnet or NSG id fails with a
\* transport error or a non-success status other than 404, the pass returns
\* an error, no create call follows the lookup and the cached id is kept.
C7_RemoteFailureIsNotStale ==
    ClusterNormalPass =>
      \A i \in 1..Len(calls) :
        (/\ calls[i].op = "get" /\ calls[i].kind \in {"vpc", "subnet", "nsg"}
         /\ calls[i].res \in FaultModes)
        => /\ pass.err
           /\ i = Len(calls)
           /\ Cached(mem, calls[i].kind, calls[i].key) = calls[i].id

(***************************************************************************)
(* C8  Creation ordering                                                   *)
(***************************************************************************)
\* C8: the remote calls of a converge pass come in the order VPC, IP block,
\* subnets, NSG; a subnet create is issued only with a VPC id and an IP-block
\* id in status, and carries that IP-block id; an NSG create is issued only
\* with VPCReady true.
C8_CreationOrdering ==
    ClusterNormalPass =>
      /\ \A i, j \in 1..Len(calls) :
           i < j => CreateRank(calls[i].kind) <= CreateRank(calls[j].kind)
      /\ \A i \in CallsOf(calls, "create", "subnet") :
           /\ calls[i].statusIpb # 0 /\ calls[i].statusVpc # 0
           /\ calls[i].reqIpb = calls[i].statusIpb
      /\ \A i \in CallsOf(calls, "create", "nsg") :
           calls[i].vpcReady = "True" /\ calls[i].statusVpc # 0

\* the first convergence of a cluster with an NSG: five creates in one pass
C8_Witness ==
    /\ ClusterNormalPass /\ ~pass.err
    /\ Len(calls) = 5
    /\ \A i \in 1..Len(calls) : calls[i].op = "create" /\ calls[i].res = "ok"
    /\ calls[5].kind = "nsg"

(***************************************************************************)
(* C9  The ready flag                                                      *)
(***************************************************************************)
StepsSucceeded(o) ==
    /\ o.conds[VPCReadyCondition] = "True" /\ o.vpcID # 0
    /\ o.conds[SubnetsReadyCondition] = "True" /\ DOMAIN o.subnetIDs = SubnetNameSet
    /\ o.hasNSG => (o.conds[NSGReadyCondition] = "True" /\ o.nsgID # 0)

\* C9: the ready flag of a cluster that is not ready becomes true, in memory
\* or on the persisted object, only in a converge pass that returns no error
\* after its VPC step, its subnets step and, with an NSG in the spec, its NSG
\* step succeeded.
C9_ReadyOnlyAfterAllSteps ==
    [][(~nvidiaBmmCluster.ready /\ (mem'.ready \/ nvidiaBmmCluster'.ready))
       => /\ pass'.ctrl = "cluster" /\ pass'.branch = "normal" /\ ~pass'.err
          /\ StepsSucceeded(mem')
          /\ \A i \in 1..Len(calls') :
               calls'[i].op = "create" => calls'[i].res = "ok"]_vars

\* the pass that makes a cluster with an NSG ready
C9_Witness ==
    /\ ClusterNormalPass /\ pass.patched
    /\ nvidiaBmmCluster.ready /\ nvidiaBmmCluster.hasNSG
    /\ \E i \in 1..Len(calls) : calls[i].op = "create" /\ calls[i].kind = "nsg"

(***************************************************************************)
(* C10  Endpoint adoption                                                  *)
(***************************************************************************)
\* C10: once the three control-plane machines are ready, each with at least
\* one address, the control-plane endpoint of the cluster object is the first
\* address of the first of them that became ready, with port 6443.
C10_EndpointAdoption ==
    (\A m \in Machines :
       /\ IsControlPlane(capiMachines[m])
       /\ machines[m].ready /\ Len(machines[m].addresses) > 0)
    => nvidiaBmmCluster.endpoint =
         [host |-> machines[firstReady].addresses[1], port |-> APIServerPort]

(***************************************************************************)
(* C11  The machine controller only reads the cluster's network state      *)
(***************************************************************************)
\* the status fields of a cluster that cache its network state
ClusterStatus(o) ==
    [vpcID |-> o.vpcID, subnetIDs |-> o.subnetIDs, nsgID |-> o.nsgID,
     ipBlockID |-> o.ipBlockID, ready |-> o.ready]

\* C11: no machine reconcile pass, whichever branch it takes (gate,
\* provisioning, polling, delete), changes the VPC id, the subnet map, the
\* NSG id, the IP-block id or the ready flag of the cluster, neither on the
\* persisted object nor on the copy the pass holds in memory.
C11_MachinePassReadsClusterOnly ==
    [][pass'.ctrl = "machine" =>
         /\ ClusterStatus(nvidiaBmmCluster') = ClusterStatus(nvidiaBmmCluster)
         /\ ClusterStatus(mem') = ClusterStatus(nvidiaBmmCluster)]_vars

\* a machine delete pass that deleted the instance of a machine whose
\* cluster caches a VPC and the machine's subnet
C11_Witness ==
    /\ pass.ctrl = "machine" /\ pass.branch = "delete" /\ ~pass.err
    /\ CallsOf(calls, "delete", "instance") # {}
    /\ nvidiaBmmCluster.vpcID # 0
    /\ MachineSubnetName \in DOMAIN nvidiaBmmCluster.subnetIDs

(***************************************************************************)
(* C12  Cleanup order across objects                                       *)
(***************************************************************************)
\* the machines that cache the id of an instance that still exists remotely
MachinesWithInstance ==
    {m \in Machines : /\ machines[m].instanceID # 0
                      /\ machines[m].instanceID \in remote["instance"]}

\* C12: a cluster delete pass issues no delete call for the NSG, a subnet or
\* the VPC while a machine caches the id of an instance that has not been
\* deleted remotely.
C12_MachinesBeforeNetwork ==
    (ClusterDeletePass /\ MachinesWithInstance # {}) =>
      \A i \in 1..Len(calls) :
        ~(calls[i].op = "delete" /\ calls[i].kind \in {"nsg", "subnet", "vpc"})

(***************************************************************************)
(* C13  No error is silently dropped                                       *)
(***************************************************************************)
\* the pass reached the deferred patch
PatchAttempted == pass.branch \in {"scope", "normal", "delete"}

\* a remote call of the pass failed, or its deferred patch did
FailureOccurred ==
    /\ PatchAttempted
    /\ \/ ~pass.patched
       \/ \E i \in 1..Len(calls) : calls[i].res \in FaultModes

\* a condition of the persisted object of the pass is False
ConditionFalse ==
    IF pass.ctrl = "cluster"
    THEN \E t \in ClusterConditions : nvidiaBmmCluster.conds[t] = "False"
    ELSE \E t \in MachineConditions : machines[pass.who].conds[t] = "False"

\* C13: after a cluster or machine pass in which a remote call or the
\* deferred patch failed, the pass returned an error or asked to be run
\* again, or a condition of the persisted object is False.
C13_NoErrorDropped ==
    FailureOccurred => (pass.err \/ pass.requeue # "none" \/ ConditionFalse)

(***************************************************************************)
(* C14  Mutually exclusive instance selection                              *)
(***************************************************************************)
BothSelected(mo) == mo.instanceType.id # "" /\ mo.instanceType.machineID # ""

\* C14: a machine pass for a machine whose spec sets both instanceType.id
\* and instanceType.machineID issues no create-instance call, and once past
\* the finalizer it returns an error with InstanceProvisioned False; no
\* instance was created from a request carrying both an instance type id and
\* a machine id.
C14_ExclusiveInstanceSelection ==
    /\ (pass.ctrl = "machine" /\ BothSelected(machines[pass.who])) =>
         /\ CallsOf(calls, "create", "instance") = {}
         /\ (pass.branch = "normal" /\ pass.requeue # "now") =>
              /\ pass.err
              /\ memMachine.o.conds[InstanceProvisionedCondition] = "False"
    /\ \A id \in DOMAIN instances :
         ~(instances[id].req.instanceTypeId # "" /\ instances[id].req.machineId # "")

(***************************************************************************)
(* C15  Mirroring consistency                                              *)
(***************************************************************************)
\* C15: after a machine reconcile pass the persisted owner Machine has the
\* address list and the provider id of the persisted NvidiaBMMMachine.
C15_MirroringConsistency ==
    pass.ctrl = "machine" =>
      /\ capiMachines[pass.who].providerID = machines[pass.who].providerID
      /\ capiMachines[pass.who].addresses = machines[pass.who].addresses

(***************************************************************************)
(* C16  Cluster convergence                                                *)
(***************************************************************************)
\* an owned, unpaused cluster with a direct site id and resolvable
\* credentials that is not marked for deletion
Eligible(o) ==
    /\ o.exists /\ o.owner /\ ~o.paused /\ ~o.deleting
    /\ ParseSiteUUID(SiteID(o).val) /\ ~SiteID(o).err
    /\ o.credsOK

ReadyWithNetwork(o) ==
    /\ o.ready
    /\ o.vpcID # 0
    /\ DOMAIN o.subnetIDs = SubnetNameSet
    /\ \A n \in SubnetNameSet : o.subnetIDs[n] # 0
    /\ o.hasNSG => o.nsgID # 0

\* the remote accepted every request of the pass: no transport error, no
\* error status
AllAccepted(log) == \A i \in 1..Len(log) : log[i].res \notin FaultModes

Provisionable(m) ==
    /\ machines[m].exists /\ machines[m].owner /\ ~machines[m].deleting
    /\ nvidiaBmmCluster.exists /\ ~nvidiaBmmCluster.paused
    /\ nvidiaBmmCluster.ready /\ nvidiaBmmCluster.credsOK
    /\ capiMachines[m].bootstrap

C18_MachineDeletionCompletes ==
    (/\ pass.ctrl = "machine"
     /\ AllAccepted(calls) /\ AllDeletesOK(calls)
     /\ PatchAttempted => pass.patched) =>
      ~(/\ machines[pass.who].exists
        /\ machines[pass.who].deleting
        /\ machines[pass.who].finalizer)

\* a machine marked for deletion that carries the finalizer while the cluster
\* object is gone
Orphaned(ms, o) ==
    \E m \in Machines :
      ms[m].exists /\ ms[m].deleting /\ ms[m].finalizer /\ ~o.exists

\* such a machine stays so for ever: every later pass for it ends at the
\* lookup of the cluster
OrphanedForEver ==
    [][Orphaned(machines, nvidiaBmmCluster) =>
         Orphaned(machines', nvidiaBmmCluster')]_vars

(***************************************************************************)
(* C19  Site reference by name or id                                       *)
(***************************************************************************)
\* C19: a pass past the finalizer over a cluster whose siteRef carries only
\* a site name resolves the site id and proceeds to the VPC as for a direct
\* id: the VPCReady condition is not False for the site reference, and the
\* pass looks the VPC up or creates it.
C19_SiteReferenceByName ==
    (/\ ClusterNormalPass /\ pass.requeue # "now"
     /\ nvidiaBmmCluster.siteRef = "name"
     /\ AllAccepted(calls)) =>
      /\ mem.conds[VPCReadyCondition] # "False"
      /\ CallsOf(calls, "create", "vpc") \cup CallsOf(calls, "get", "vpc") # {}

(***************************************************************************)
(* C20  CIDR derivation                                                    *)
(***************************************************************************)
\* bit p of an IPv4 address, counted from the most significant bit
Bit(ip, p) == (ip[((p - 1) \div 8) + 1] \div 2 ^ (7 - ((p - 1) % 8))) % 2

\* C20: for every declared CIDR a.b.c.d/n with n in 0..32, parseCIDR yields
\* no error, prefix length n and the address whose first n bits are those of
\* a.b.c.d and whose other bits are 0; every create-subnet request consists
\* of name, VPC id, IP-block id and prefix length, and its prefix length is
\* the n of the subnet's CIDR.
C20_CIDRDerivation ==
    /\ \A name \in SubnetNameSet :
         LET cidr == nvidiaBmmCluster.cidrs[name]
             parsed == parseCIDR(cidr)
         IN cidr.n \in 0..32 =>
              /\ ~parsed.err
              /\ parsed.prefixLength = cidr.n
              /\ \A p \in 1..32 :
                   Bit(parsed.network, p) = IF p <= cidr.n THEN Bit(cidr.ip, p) ELSE 0
    /\ \A i \in CallsOf(calls, "create", "subnet") :
         /\ DOMAIN calls[i].req = {"name", "vpcId", "ipv4BlockId", "prefixLength"}
         /\ calls[i].req.prefixLength = mem.cidrs[calls[i].key].n

\* the subnet of a CIDR with host bits set, 10.0.1.5/24, was created
C20_Witness ==
    /\ nvidiaBmmCluster.cidrs["cp"] = CIDR(10, 0, 1, 5, 24)
    /\ parseCIDR(nvidiaBmmCluster.cidrs["cp"]).network = <<10, 0, 1, 0>>
    /\ \E i \in CallsOf(calls, "create", "subnet") :
         calls[i].key = "cp" /\ calls[i].res = "ok"

(***************************************************************************)
(* C21  Identifier round trip                                              *)
(***************************************************************************)
ProviderIDOf(o, mo) ==
    NewProviderID(o.orgName, o.tenantID, SiteText(SiteID(o).val), mo.instanceID)

Components(p) == NewProviderID(p.org, p.tenant, p.site, p.instance)

SlashFree(text) == \A i \in 1..Len(text) : text[i] # "/"

RoundTrip(org, tenant, site, u) ==
    LET p == ParseProviderID(ProviderIDString(NewProviderID(org, tenant, site, u)))
    IN p.err = "" /\ Components(p) = NewProviderID(org, tenant, site, u)

ReadsBack(o, mo) ==
    ProviderID(mo).err = "" /\ Components(ProviderID(mo)) = ProviderIDOf(o, mo)

NoNSGTrace(o) == o.nsgID = 0 /\ o.conds[NSGReadyCondition] = ""

\* C22: for a cluster whose spec has no security group, no pass issues a
\* lookup or create call for an NSG, the cached NSG id stays empty, no
\* NSGReady condition is set, in memory or persisted, and a converge pass
\* past the finalizer that returns no error sets the ready flag with the VPC
\* and subnet steps alone.
C22_NSGOnlyIfRequested ==
    ~nvidiaBmmCluster.hasNSG =>
      /\ CallsOf(calls, "get", "nsg") = {} /\ CallsOf(calls, "create", "nsg") = {}
      /\ NoNSGTrace(nvidiaBmmCluster) /\ NoNSGTrace(mem)
      /\ (ClusterNormalPass /\ ~pass.err /\ pass.requeue # "now") =>
           /\ mem.ready
           /\ mem.conds[VPCReadyCondition] = "True"
           /\ mem.conds[SubnetsReadyCondition] = "True"

\* a cluster without a security group made ready by a pass that created its
\* VPC or subnets
C22_Witness ==
    /\ ~nvidiaBmmCluster.hasNSG /\ nvidiaBmmCluster.ready
    /\ ClusterNormalPass /\ pass.patched /\ ~pass.err
    /\ CallsOf(calls, "create", "subnet") # {}

(***************************************************************************)
(* C23  One IP block per cluster                                           *)
(***************************************************************************)
\* C23: without remote drift (no action of MSpec removes a remote resource)
\* at most one IP block is ever created for the cluster, and every subnet
\* create call carries the IP-block id cached in status at the time of the
\* call.
C23_OneIPBlockPerCluster ==
    /\ Cardinality(remote["ipblock"]) <= 1
    /\ \A i \in CallsOf(calls, "create", "subnet") :
         calls[i].reqIpb = calls[i].statusIpb /\ calls[i].reqIpb # 0

(***************************************************************************)
(* C24  Unowned objects are left untouched                                 *)
(***************************************************************************)
\* what a pass can touch: the objects, the remote and its instances
Untouched ==
    /\ calls' = <<>>
    /\ UNCHANGED <<nvidiaBmmCluster, machines, capiMachines, remote, instances,
                   nextID>>

ReturnsNothing(p) == ~p.err /\ p.requeue = "none"

\* C24: a pass on an NvidiaBMMCluster without owner Cluster, or on an
\* NvidiaBMMMachine without owner Machine, attaches no finalizer, issues no
\* remote call, changes no status field or condition, in memory or persisted,
\* and returns without error and without requeue.
C24_UnownedUntouched ==
    [][/\ (pass'.ctrl = "cluster" /\ nvidiaBmmCluster.exists
             /\ ~nvidiaBmmCluster.owner)
          => Untouched /\ ReturnsNothing(pass') /\ mem' = nvidiaBmmCluster
       /\ (pass'.ctrl = "machine" /\ machines[pass'.who].exists
             /\ ~machines[pass'.who].owner)
          => /\ Untouched /\ ReturnsNothing(pass')
             /\ memMachine'.o = machines[pass'.who]
             /\ mem' = nvidiaBmmCluster]_vars

\* a pass on an unowned machine next to an owned, ready cluster
C24_Witness ==
    /\ pass.ctrl = "machine" /\ pass.branch = "unowned"
    /\ ~machines[pass.who].owner /\ ~machines[pass.who].finalizer
    /\ nvidiaBmmCluster.ready /\ capiMachines[pass.who].bootstrap

(***************************************************************************)
(* C25  Unmet gates make no progress                                       *)
(***************************************************************************)
\* the machine pass reaches the gates: the objects exist, are owned, unpaused
ReachesGates(m) ==
    /\ machines[m].exists /\ machines[m].owner
    /\ nvidiaBmmCluster.exists /\ ~nvidiaBmmCluster.paused

\* C25: a machine pass that finds the owning cluster not ready or the
\* bootstrap reference unset returns a 10-second requeue with no error and
\* leaves the machine entirely unchanged: no finalizer attached, no status
\* field or condition changed in memory or persisted, no remote call.
C25_UnmetGatesNoProgress ==
    [][(pass'.ctrl = "machine" /\ ReachesGates(pass'.who) /\ GatesUnmet(pass'.who))
         => /\ ~pass'.err /\ pass'.requeue = "10s"
            /\ Untouched
            /\ memMachine'.o = machines[pass'.who]]_vars

\* a pass on an owned machine without finalizer that stops at the bootstrap
\* gate of a ready cluster
C25_Witness ==
    /\ pass.ctrl = "machine" /\ pass.branch = "nobootstrap" /\ pass.requeue = "10s"
    /\ nvidiaBmmCluster.ready /\ machines[pass.who].owner
    /\ ~machines[pass.who].finalizer

(***************************************************************************)
(* C26  Polling rule                                                       *)
(***************************************************************************)
\* the step is a pass on machine m that fetched its instance
PollingPass(m) ==
    /\ pass'.ctrl = "machine" /\ pass'.who = m /\ pass'.branch = "normal"
    /\ machines[m].instanceID # 0
    /\ \E i \in CallsOf(calls', "get", "instance") : calls'[i].res = "ok"

FetchedState(m) == instances[machines[m].instanceID].state

\* C26: a polling pass sets the machine's ready flag only when the fetched
\* instance state is exactly "Ready"; for every other fetched state (Pending,
\* Provisioning, Error, Terminating or none) it returns a 30-second requeue
\* with no error and leaves the ready flag as it was.
C26_PollingRule ==
    [][\A m \in Machines :
         PollingPass(m) =>
           IF FetchedState(m) = "Ready"
           THEN memMachine'.o.ready /\ ~pass'.err /\ pass'.requeue = "none"
           ELSE /\ ~pass'.err /\ pass'.requeue = "30s"
                /\ memMachine'.o.ready = machines[m].ready
                /\ machines'[m].ready = machines[m].ready]_vars

\* a polling pass that fetched an instance in state Error or without state
\* and requeued
C26_Witness ==
    /\ pass.ctrl = "machine" /\ pass.branch = "normal" /\ pass.requeue = "30s"
    /\ pass.patched /\ ~machines[pass.who].ready
    /\ machines[pass.who].instanceID # 0
    /\ instances[machines[pass.who].instanceID].state \in {"Error", NoInstanceState}

(***************************************************************************)
(* C27  Provisioning outcome                                               *)
(***************************************************************************)
\* the provider id is set exactly with the instance id, and is composed of
\* the organization, the tenant, the site and that instance id
ProviderIDMatches(o, mo) ==
    /\ mo.providerID # NoProviderID <=> mo.instanceID # 0
    /\ mo.instanceID # 0 => mo.providerID = ProviderIDString(ProviderIDOf(o, mo))

\* the create-instance calls of the last pass that succeeded
InstanceCreated ==
    {i \in CallsOf(calls, "create", "instance") : calls[i].res = "ok"}

ClusterReachesNormal(o) ==
    o.exists /\ o.owner /\ ~o.paused /\ o.credsOK /\ ~o.deleting

\* the machine pass reaches reconcileNormal: past both gates, scope built,
\* no deletion timestamp
MachineReachesNormal(m) ==
    /\ ReachesGates(m) /\ ~GatesUnmet(m)
    /\ nvidiaBmmCluster.credsOK /\ ~machines[m].deleting

NetworkSubnets(mo) ==
    {mo.network.subnetName}
    \cup {mo.network.additionalInterfaces[i].subnetName :
            i \in 1..Len(mo.network.additionalInterfaces)}

\* the interface list matches the network of the machine spec
InterfacesOf(list, o, mo) ==
    /\ Len(list) = 1 + Len(mo.network.additionalInterfaces)
    /\ list[1].subnetId = o.subnetIDs[mo.network.subnetName]
    /\ ~list[1].isPhysical
    /\ \A i \in 1..Len(mo.network.additionalInterfaces) :
         /\ list[i + 1].subnetId =
              o.subnetIDs[mo.network.additionalInterfaces[i].subnetName]
         /\ list[i + 1].isPhysical = mo.network.additionalInterfaces[i].isPhysical

\* C29: the interface list of every create-instance request starts with the
\* primary subnet's id, never marked physical, followed by one interface per
\* declared additional interface, in order, each with its own is-physical
\* flag; when the primary or an additional subnet name is absent from the
\* cluster's cached subnet map, the provisioning pass fails and issues no
\* create-instance call.
C29_InterfaceList ==
    [][\A m \in Machines :
         (/\ pass'.ctrl = "machine" /\ pass'.who = m /\ pass'.branch = "normal"
          /\ machines[m].finalizer /\ machines[m].instanceID = 0)
         => IF NetworkSubnets(machines[m]) \subseteq DOMAIN nvidiaBmmCluster.subnetIDs
            THEN \A i \in CallsOf(calls', "create", "instance") :
                   calls'[i].res = "ok" =>
                     InterfacesOf(instances'[calls'[i].id].interfaces,
                                  nvidiaBmmCluster, machines[m])
            ELSE /\ pass'.err
                 /\ CallsOf(calls', "create", "instance") = {}
                 /\ UNCHANGED <<remote, instances>>]_vars

\* an instance created with two additional interfaces, one of them physical
C29_Witness ==
    /\ InstanceCreated # {} /\ pass.patched
    /\ Len(machines[pass.who].network.additionalInterfaces) = 2
    /\ \E i \in 2..3 :
         instances[machines[pass.who].instanceID].interfaces[i].isPhysical
    /\ InterfacesOf(instances[machines[pass.who].instanceID].interfaces,
                    nvidiaBmmCluster, machines[pass.who])

(***************************************************************************)
(* C30  Control-plane role derivation                                      *)
(***************************************************************************)
\* the owner Machine carries the control-plane label, whatever its value
CarriesControlPlaneLabel(ma) == ma.cpLabel # "absent"

\* the last pass polled the machine's instance, found it ready with an
\* address, and the cluster had no endpoint
PolledReadyWithAddress ==
    /\ pass.ctrl = "machine" /\ pass.branch = "normal" /\ ~pass.err
    /\ \E i \in CallsOf(calls, "get", "instance") : calls[i].res = "ok"
    /\ memMachine.o.ready /\ Len(memMachine.o.addresses) > 0
    /\ nvidiaBmmCluster.endpoint.host = ""

\* C30: a machine is treated as a control-plane member exactly when its
\* owner Machine carries the control-plane label, the empty value included:
\* a pass that finds the instance of a machine ready with an address, the
\* cluster having no endpoint, adopts the endpoint exactly for such a machine.
C30_ControlPlaneRole ==
    PolledReadyWithAddress =>
      (mem.endpoint.host # "" <=> CarriesControlPlaneLabel(capiMachines[pass.who]))

(***************************************************************************)
(* C31  The cluster ready flag is never reset                              *)
(***************************************************************************)
StepCondition(o) ==
    \E t \in {VPCReadyCondition, SubnetsReadyCondition, NSGReadyCondition} :
      o.conds[t] = "False"

\* C31: no step resets the ready flag of the cluster: once Status.Ready is
\* true on the persisted object it stays true, and a cluster pass that starts
\* from a ready cluster, a failing converge pass and a delete pass included,
\* ends with the flag true in memory.
C31_ClusterReadyNeverReset ==
    [][nvidiaBmmCluster.ready
         => /\ nvidiaBmmCluster'.ready
            /\ (pass'.ctrl = "cluster" /\ pass'.branch \in {"scope", "normal", "delete"})
                 => mem'.ready]_vars

\* a ready cluster after a failed converge pass that set a step condition
\* false and persisted it
C31_Witness ==
    /\ ClusterNormalPass /\ pass.err /\ pass.patched
    /\ nvidiaBmmCluster.ready /\ StepCondition(nvidiaBmmCluster)

(***************************************************************************)
(* C32  The machine ready flag is never reset                              *)
(***************************************************************************)
MachineIsReady(mo) == mo.ready /\ mo.conds[ReadyCondition] = "True"

\* C32: no step resets the ready flag of a machine: once Status.Ready is
\* true on the persisted object, it and the Ready condition stay true, in
\* memory and persisted, and a pass that polls the instance in another state
\* mirrors that state in Status.InstanceState.
C32_MachineReadyNeverReset ==
    [][\A m \in Machines :
         machines[m].ready
           => /\ MachineIsReady(machines'[m])
              /\ (pass'.ctrl = "machine" /\ pass'.who = m
                    /\ pass'.branch \in {"scope", "normal", "delete"})
                   => MachineIsReady(memMachine'.o)
              /\ (PollingPass(m) /\ FetchedState(m) # NoInstanceState)
                   => memMachine'.o.state = FetchedState(m)]_vars

\* a ready machine whose instance was polled in state Error
C32_Witness ==
    /\ pass.ctrl = "machine" /\ pass.branch = "normal" /\ pass.patched
    /\ pass.requeue = "30s"
    /\ MachineIsReady(machines[pass.who])
    /\ machines[pass.who].state = "Error"

(***************************************************************************)
(* C33  The instance id is write-once                                      *)
(***************************************************************************)
\* the step is a pass on machine m whose lookup of the instance failed or
\* answered not-found
LookupMissed(m) ==
    /\ pass'.ctrl = "machine" /\ pass'.who = m /\ pass'.branch = "normal"
    /\ \E i \in CallsOf(calls', "get", "instance") : calls'[i].res # "ok"

\* C33: once Status.InstanceID is non-empty no step changes or clears it,
\* persisted or in the memory of a pass, and a pass whose lookup of that id
\* fails or answers not-found returns an error and issues no create-instance
\* call.
C33_InstanceIDWriteOnce ==
    [][\A m \in Machines :
         machines[m].instanceID # 0
           => /\ machines'[m].instanceID = machines[m].instanceID
              /\ (pass'.ctrl = "machine" /\ pass'.who = m)
                   => memMachine'.o.instanceID = machines[m].instanceID
              /\ LookupMissed(m)
                   => /\ pass'.err
                      /\ CallsOf(calls', "create", "instance") = {}
                      /\ UNCHANGED <<remote, instances>>]_vars

\* a pass that looked up an instance the remote has lost
C33_Witness ==
    /\ pass.ctrl = "machine" /\ pass.branch = "normal" /\ pass.err /\ pass.patched
    /\ machines[pass.who].instanceID # 0
    /\ machines[pass.who].instanceID \notin remote["instance"]
    /\ \E i \in CallsOf(calls, "get", "instance") : calls[i].res = "notfound"

(***************************************************************************)
(* C34  At most one instance per machine                                   *)
(***************************************************************************)
\* the instances ever created for machine m
InstancesOf(m) == {id \in DOMAIN instances : instances[id].name = m}

\* every instance created for m is the one the persisted machine caches
InstancesCached(m) == \A id \in InstancesOf(m) : machines[m].instanceID = id

\* the step is a machine pass whose end-of-pass patch was not persisted
PatchLost ==
    /\ pass'.ctrl = "machine" /\ pass'.branch \in {"scope", "normal", "delete"}
    /\ ~pass'.patched

\* C34: as long as every end-of-pass patch of the machine object is persisted,
\* every instance created for a machine is the one its status caches, so at
\* most one create-instance call ever returns a created instance for it.
C34_AtMostOneInstance ==
    [][\A m \in Machines :
         (InstancesCached(m) /\ ~PatchLost)
           => /\ InstancesCached(m)'
              /\ Cardinality(InstancesOf(m)') <= 1]_vars

\* a machine with its one instance after a pass that polled it
C34_Witness ==
    /\ pass.ctrl = "machine" /\ pass.branch = "normal" /\ pass.patched
    /\ pass.requeue = "30s"
    /\ Cardinality(InstancesOf(pass.who)) = 1 /\ InstancesCached(pass.who)

(***************************************************************************)
(* C35  The IP block is never deleted                                      *)
(***************************************************************************)
\* C35: no cluster pass deletes an IP block: a delete pass issues delete
\* calls only, for the NSG, the cached subnets and the VPC, and every IP
\* block that exists remotely before a cluster pass exists after it, the pass
\* that removes the finalizer included.
C35_IPBlockNeverDeleted ==
    [][pass'.ctrl = "cluster"
         => /\ remote["ipblock"] \subseteq remote'["ipblock"]
            /\ CallsOf(calls', "delete", "ipblock") = {}
            /\ pass'.branch = "delete"
                 => \A i \in 1..Len(calls') :
                      /\ calls'[i].op = "delete"
                      /\ calls'[i].kind \in {"nsg", "subnet", "vpc"}]_vars

\* the cluster is gone, its VPC is deleted and its IP block still exists
C35_Witness ==
    /\ ClusterDeletePass /\ pass.patched /\ ~pass.err
    /\ ~nvidiaBmmCluster.exists /\ ~mem.finalizer
    /\ CallsOf(calls, "delete", "vpc") # {}
    /\ mem.ipBlockID # 0 /\ mem.ipBlockID \in remote["ipblock"]

(***************************************************************************)
(* C36  No creation during deletion                                        *)
(***************************************************************************)
OnlyDeleteCalls(log) == \A i \in 1..Len(log) : log[i].op = "delete"

\* C36: a pass on a cluster or on a machine whose deletion timestamp is set
\* issues no create call and no lookup, only delete calls, creates nothing
\* remotely and never attaches the finalizer, in memory or persisted.
C36_NoCreationDuringDeletion ==
    [][/\ (pass'.ctrl = "cluster" /\ nvidiaBmmCluster.exists
             /\ nvidiaBmmCluster.deleting)
          => /\ OnlyDeleteCalls(calls') /\ nextID' = nextID
             /\ \A kind \in RemoteKinds : remote'[kind] \subseteq remote[kind]
             /\ mem'.finalizer => nvidiaBmmCluster.finalizer
             /\ nvidiaBmmCluster'.finalizer => nvidiaBmmCluster.finalizer
       /\ \A m \in Machines :
            (pass'.ctrl = "machine" /\ pass'.who = m /\ machines[m].exists
               /\ machines[m].deleting)
            => /\ OnlyDeleteCalls(calls') /\ nextID' = nextID
               /\ \A kind \in RemoteKinds : remote'[kind] \subseteq remote[kind]
               /\ memMachine'.o.finalizer => machines[m].finalizer
               /\ machines'[m].finalizer => machines[m].finalizer]_vars

\* a delete pass on a machine with an instance that issued its delete call
C36_Witness ==
    /\ pass.ctrl = "machine" /\ pass.branch = "delete" /\ pass.patched
    /\ CallsOf(calls, "delete", "instance") # {}
    /\ ~machines[pass.who].exists

(***************************************************************************)
(* C37  Gates precede deletion in the machine controller                   *)
(***************************************************************************)
\* the step is a pass on machine m, which is owned and marked for deletion
DeletingMachinePass(m) ==
    /\ pass'.ctrl = "machine" /\ pass'.who = m
    /\ machines[m].exists /\ machines[m].owner /\ machines[m].deleting

\* C37: a pass on a machine marked for deletion whose cluster is not ready or
\* whose bootstrap reference is unset issues no delete-instance call, keeps
\* the finalizer and returns a 10-second requeue; if the NvidiaBMMCluster can
\* no longer be fetched the pass returns an error before any delete.
C37_GatesPrecedeDeletion ==
    [][\A m \in Machines :
         DeletingMachinePass(m)
           => /\ (nvidiaBmmCluster.exists /\ ~nvidiaBmmCluster.paused
                    /\ GatesUnmet(m))
                 => /\ calls' = <<>> /\ UNCHANGED <<remote, machines>>
                    /\ machines'[m].finalizer
                    /\ ~pass'.err /\ pass'.requeue = "10s"
              /\ ~nvidiaBmmCluster.exists
                 => /\ calls' = <<>> /\ UNCHANGED <<remote, machines>>
                    /\ machines'[m].finalizer
                    /\ pass'.err]_vars

\* a machine with an instance, marked for deletion, stopped at the gate of
\* a cluster that is not ready: the instance is still there
C37_Witness ==
    /\ pass.ctrl = "machine" /\ pass.branch = "clusternotready"
    /\ pass.requeue = "10s"
    /\ machines[pass.who].deleting /\ machines[pass.who].finalizer
    /\ machines[pass.who].instanceID \in remote["instance"]

\* the same machine while the cluster object is gone: the pass returned an
\* error
C37_WitnessNoCluster ==
    /\ pass.ctrl = "machine" /\ pass.branch = "nocluster" /\ pass.err
    /\ machines[pass.who].deleting /\ machines[pass.who].finalizer
    /\ machines[pass.who].instanceID \in remote["instance"]

(***************************************************************************)
(* C38  Remote resources are only held under a finalizer                   *)
(***************************************************************************)
HoldsResources(o) ==
    o.vpcID # 0 \/ o.ipBlockID # 0 \/ o.nsgID # 0 \/ DOMAIN o.subnetIDs # {}

Creates(log) == \E i \in 1..Len(log) : log[i].op = "create"

SubnetCalls(log, op, name) ==
    {i \in CallsOf(log, op, "subnet") : log[i].key = name}

\* the step is a converge pass without error in which no lookup of the
\* subnet `name` failed
ConvergedOver(name) ==
    /\ pass'.ctrl = "cluster" /\ pass'.branch = "normal" /\ ~pass'.err
    /\ nvidiaBmmCluster.finalizer
    /\ \A i \in SubnetCalls(calls', "get", name) : calls'[i].res = "ok"

\* the last pass replaced the cached VPC id by a recreated VPC
VPCReplaced ==
    /\ ClusterNormalPass
    /\ \E i \in CallsOf(calls, "get", "vpc") : calls[i].res # "ok"
    /\ \E i \in CallsOf(calls, "create", "vpc") :
         calls[i].res = "ok" /\ mem.vpcID = calls[i].id

\* C39: a converge pass keeps every cached subnet id that still resolves
\* remotely and issues no subnet create call for it, whether or not the pass
\* replaced the cached VPC id by a recreated VPC.
C39_VPCRecreationKeepsSubnets ==
    [][\A name \in DOMAIN nvidiaBmmCluster.subnetIDs :
         (/\ ConvergedOver(name)
          /\ nvidiaBmmCluster.subnetIDs[name] \in remote["subnet"])
         => /\ name \in DOMAIN mem'.subnetIDs
            /\ mem'.subnetIDs[name] = nvidiaBmmCluster.subnetIDs[name]
            /\ SubnetCalls(calls', "create", name) = {}]_vars

\* a cluster reported ready by the pass that replaced its VPC: the subnets
\* are the ones created before the new VPC existed
C39_Witness ==
    /\ VPCReplaced /\ ~pass.err /\ pass.patched /\ nvidiaBmmCluster.ready
    /\ CallsOf(calls, "create", "subnet") = {}
    /\ DOMAIN nvidiaBmmCluster.subnetIDs = SubnetNameSet
    /\ \A name \in SubnetNameSet :
         /\ nvidiaBmmCluster.subnetIDs[name] \in remote["subnet"]
         /\ nvidiaBmmCluster.subnetIDs[name] < nvidiaBmmCluster.vpcID

====
